---- MODULE Spec2Model ----
(***************************************************************************)
(* Model of the time-series report aggregator of test/generate-report.py:  *)
(* print_table_by_distro_report and the helpers it calls, with its caller  *)
(* generate_website of test/fetch-and-publish.py; of the selection and the *)
(* download loop of fetch_previous_results of test/generate-website.py;    *)
(* of fetch_local_results of both scripts; and of main, process_commit and *)
(* save_results of extract-tool/extract_results.py.                        *)
(*                                                                         *)
(* Strings whose characters matter (test names, distribution names) are    *)
(* sequences of one-character strings, so that Python's `in` on strings    *)
(* is a real substring test.  A datetime is a record [day, hour, minute,   *)
(* second]; day counts calendar days and day 0 is a Monday, so that        *)
(* datetime.weekday() is day % 7.  Python's None is NoneValue (for a       *)
(* string), NoDate (for a datetime), NoRef (for a series position).        *)
(***************************************************************************)
EXTENDS Integers, Sequences, FiniteSets, TLC

VARIABLES
    test_results_fname_list,  \* argument: the result files, in input order
    ignore_tests,             \* argument: the --ignore names
    compare_weekday_num,      \* argument: anchor weekday, or NoWeekday (None)
    top_packages,             \* what the ranking URL answers
    pc,                       \* position in print_table_by_distro_report and its caller
    raised,                   \* the exception that ended the run, "" if none
    test_results_list,        \* the TestResultFile objects
    wheel_name_set,           \* sorted package names
    all_test_names,           \* sorted test names
    wheel_ranks,              \* result of get_wheel_ranks
    reference_date,           \* the weekday-anchored reference date
    reference_test_file,      \* position in test_results_list of the reference, or NoRef
    leading_zeros,            \* width of the rank format
    summary_rows,             \* the comparison table
    wheels,                   \* the per-package records handed to the template
    fetch_results,            \* fetch_previous_results: `results`, the artifacts selected for download
    previous_result,          \* fetch_previous_results: artifacts the download loop has handled
    result_fnames,            \* fetch_previous_results: the result files extracted so far
    fetch_pc,                 \* position in fetch_previous_results, "off" when it does not run
    days_ago_arg,             \* fetch_previous_results: the argument days_ago_list
    response_artifacts,       \* fetch_previous_results: response_data['artifacts']
    days_ago_list,            \* fetch_previous_results: the sorted copy the selection loop pops from
    artifacts,                \* fetch_previous_results: the artifacts of the API, newest first
    artifact_pos,             \* fetch_previous_results: artifacts the selection loop has looked at
    selected,                 \* fetch_previous_results: results, the artifacts selected so far
    select_pc,                \* position in the selection, "off" when it does not run
    local_variant,            \* fetch_local_results: the script whose function runs
    results_dir,              \* fetch_local_results: the file names of the directory
    exclude_fname,            \* fetch_local_results: the file of the current run, or NoneValue
    max_results,              \* fetch_local_results: the cap on the history
    fnames,                   \* fetch_local_results: the list that is returned
    local_pc,                 \* position in fetch_local_results, "off" when it does not run
    commits,                  \* extract-tool main: the commits of get_commit_list
    pending,                  \* extract-tool main: commits whose result the pool has not yielded
    executions,               \* extract-tool main: results["executions"]
    saved,                    \* extract-tool save_results: the files written, by name
    extract_pc                \* position in extract-tool main, "off" when it does not run

\* the state of fetch_previous_results of test/generate-website.py
fetch_vars == <<fetch_results, previous_result, result_fnames, fetch_pc>>

\* the state of print_table_by_distro_report and of its caller
report_vars == <<test_results_fname_list, ignore_tests, compare_weekday_num, top_packages,
                 pc, raised, test_results_list, wheel_name_set, all_test_names, wheel_ranks,
                 reference_date, reference_test_file, leading_zeros, summary_rows, wheels>>

\* the state of the selection loop of fetch_previous_results
select_vars ==
    <<days_ago_arg, response_artifacts, days_ago_list, artifacts, artifact_pos, selected,
      select_pc>>

\* the state of fetch_local_results of test/fetch-and-publish.py and test/generate-website.py
local_vars == <<local_variant, results_dir, exclude_fname, max_results, fnames, local_pc>>

\* the state of main of extract-tool/extract_results.py
extract_vars == <<commits, pending, executions, saved, extract_pc>>

\* everything but the state of the report
not_report_vars == <<fetch_vars, select_vars, local_vars, extract_vars>>

vars == <<report_vars, not_report_vars>>

----------------------------------------------------------------------------
(* Bounds of the model *)

\* most result files given to one run
MaxFiles == 3
\* last calendar day of the runs that range over the calendar: FirstDay..LastDay
LastDay == 13
\* most rows in the answer of the ranking URL
MaxRanks == 10
\* most artifacts selected for download
MaxArtifacts == 2

----------------------------------------------------------------------------
(* String literals of the source *)

S_amazon_linux2 == <<"a", "m", "a", "z", "o", "n", "-", "l", "i", "n", "u", "x", "2">>
S_centos8 == <<"c", "e", "n", "t", "o", "s", "8">>
S_focal == <<"f", "o", "c", "a", "l">>
S_jammy == <<"j", "a", "m", "m", "y">>
S_noble == <<"n", "o", "b", "l", "e">>
S_yum == <<"y", "u", "m">>
S_apt == <<"a", "p", "t">>
S_conda == <<"c", "o", "n", "d", "a">>
S_pip == <<"p", "i", "p">>

\* Python's None where a string is expected (no distribution matched)
NoneValue == <<>>

\* s[i:i+len(sub)] == sub for some i: Python's `sub in s`
IsSubstring(sub, s) ==
    \E i \in 0..(Len(s) - Len(sub)) : SubSeq(s, i + 1, i + Len(sub)) = sub

\* `for x in names: if x in test_name: return x`, then `return default`
RECURSIVE FirstContained(_, _, _)
FirstContained(names, test_name, default) ==
    IF names = <<>> THEN default
    ELSE IF IsSubstring(Head(names), test_name) THEN Head(names)
    ELSE FirstContained(Tail(names), test_name, default)

distros == <<S_amazon_linux2, S_centos8, S_focal, S_jammy, S_noble>>

\* the loop without the early return: the last entry that matches
get_distribution_name_last_match(test_name) ==
    FirstContained([i \in DOMAIN distros |-> distros[Len(distros) + 1 - i]], test_name, NoneValue)

get_distribution_name(test_name) == FirstContained(distros, test_name, NoneValue)

package_manager_names == <<S_yum, S_apt, S_conda>>

get_package_manager_name(test_name) == FirstContained(package_manager_names, test_name, S_pip)

----------------------------------------------------------------------------
(* datetime *)

NoDate == [day |-> -1, hour |-> 0, minute |-> 0, second |-> 0]

\* a file name whose timestamp part matches the pattern [0-9\-_]+ but not the format
\* "%Y-%m-%d_%H-%M-%S": strptime raises ValueError on it
Malformed == [day |-> -2, hour |-> 0, minute |-> 0, second |-> 0]

\* datetime.weekday(): Monday is 0
weekday(d) == d.day % 7

\* datetime.__lt__
DateLT(a, b) ==
    \/ a.day < b.day
    \/ a.day = b.day /\ a.hour < b.hour
    \/ a.day = b.day /\ a.hour = b.hour /\ a.minute < b.minute
    \/ a.day = b.day /\ a.hour = b.hour /\ a.minute = b.minute /\ a.second < b.second

\* d + timedelta(days=n)
AddDays(d, n) == [d EXCEPT !.day = @ + n]

\* strftime("%B %d, %Y") and strftime("%A, %B %d, %Y"): the calendar date, the time dropped
StrfDate(d) == d.day

----------------------------------------------------------------------------
(* TestResultFile.add_inferred_meta_data *)

\* the fold with = in place of |=: the last test of a distribution decides
RECURSIVE FoldPassedByDistroOverwrite(_, _, _)
FoldPassedByDistroOverwrite(wheel_dict, order, acc) ==
    IF order = <<>> THEN acc
    ELSE LET test_name == Head(order)
             distribution == get_distribution_name(test_name)
         IN  FoldPassedByDistroOverwrite(wheel_dict, Tail(order),
                 (distribution :> wheel_dict[test_name].test_passed) @@ acc)

\* the loop over wheel_dict.items() in the order `order`, folding test-passed by distribution;
\* acc is the defaultdict(lambda: False)
RECURSIVE FoldPassedByDistro(_, _, _)
FoldPassedByDistro(wheel_dict, order, acc) ==
    IF order = <<>> THEN acc
    ELSE LET test_name == Head(order)
             distribution == get_distribution_name(test_name)
             before == IF distribution \in DOMAIN acc THEN acc[distribution] ELSE FALSE
         IN  FoldPassedByDistro(wheel_dict, Tail(order),
                 (distribution :> (before \/ wheel_dict[test_name].test_passed)) @@ acc)

\* the flag computed over the recognised distributions only
EachDistributionHasPassingOptionRecognised(passed_by_distro) ==
    Cardinality({d \in DOMAIN passed_by_distro : d # NoneValue /\ ~passed_by_distro[d]}) = 0

\* len(list(filter(lambda x: not x, passed_by_distro.values()))) == 0
EachDistributionHasPassingOption(passed_by_distro) ==
    Cardinality({d \in DOMAIN passed_by_distro : ~passed_by_distro[d]}) = 0

\* the test names of `order` that are keys of wheel_dict, in that order
KeysInOrder(wheel_dict, order) == SelectSeq(order, LAMBDA t : t \in DOMAIN wheel_dict)

\* self.wheels after add_inferred_meta_data; order is the iteration order of the test names.
\* The 'results' entry of self.wheels[wheel] is the same dict object as content[wheel],
\* so it is not kept twice.
InferredWheels(content, order) ==
    [wheel \in DOMAIN content |->
        LET passed_by_distro ==
                FoldPassedByDistro(content[wheel], KeysInOrder(content[wheel], order), <<>>)
        IN  [passed_by_distribution |-> passed_by_distro,
             each_distribution_has_passing_option |->
                 EachDistributionHasPassingOption(passed_by_distro)]]

\* self.content after add_inferred_meta_data: every test's result dict has gained the keys
\* 'distribution' and 'package_manager'
AnnotatedContent(content) ==
    [wheel \in DOMAIN content |->
        [test_name \in DOMAIN content[wheel] |->
            [test_passed |-> content[wheel][test_name].test_passed,
             timeout |-> content[wheel][test_name].timeout,
             distribution |-> get_distribution_name(test_name),
             package_manager |-> get_package_manager_name(test_name)]]]

----------------------------------------------------------------------------
(* Ordering of strings and sorted() *)

\* the characters that occur in names, in code point order
Alphabet ==
    <<" ", "-", ".", "/", "0", "1", "2", "3", "4", "5", "6", "7", "8", "9", ":",
      "A", "B", "C", "D", "E", "F", "G", "H", "I", "J", "K", "L", "M",
      "N", "O", "P", "Q", "R", "S", "T", "U", "V", "W", "X", "Y", "Z", "_",
      "a", "b", "c", "d", "e", "f", "g", "h", "i", "j", "k", "l", "m",
      "n", "o", "p", "q", "r", "s", "t", "u", "v", "w", "x", "y", "z">>

\* ord(c), up to an order-preserving renumbering
CodePoint(c) == CHOOSE i \in 1..Len(Alphabet) : Alphabet[i] = c

\* str.lower on one character
LowerChar(c) ==
    LET i == CodePoint(c)
    IN  IF CodePoint("A") <= i /\ i <= CodePoint("Z")
        THEN Alphabet[i - CodePoint("A") + CodePoint("a")]
        ELSE c

\* str.lower
Lower(s) == [i \in 1..Len(s) |-> LowerChar(s[i])]

\* str.__lt__: lexicographic by code point
RECURSIVE StrLT(_, _)
StrLT(a, b) ==
    IF b = <<>> THEN FALSE
    ELSE IF a = <<>> THEN TRUE
    ELSE IF Head(a) = Head(b) THEN StrLT(Tail(a), Tail(b))
    ELSE CodePoint(Head(a)) < CodePoint(Head(b))

\* one step of a stable ascending sort of <<key, element>> pairs: x goes before the first
\* pair whose key is strictly greater
RECURSIVE InsertSorted(_, _)
InsertSorted(s, x) ==
    IF s = <<>> THEN <<x>>
    ELSE IF x[1] < Head(s)[1] THEN <<x>> \o s
    ELSE <<Head(s)>> \o InsertSorted(Tail(s), x)

RECURSIVE SortPairs(_)
SortPairs(pairs) ==
    IF pairs = <<>> THEN <<>>
    ELSE InsertSorted(SortPairs(SubSeq(pairs, 1, Len(pairs) - 1)), pairs[Len(pairs)])

\* sorted(list, key=...): stable, elements with equal keys keep the order of `list`;
\* keys[i] is the integer rank of the key of list[i]
StableSort(list, keys) ==
    LET sorted == SortPairs([i \in DOMAIN list |-> <<keys[i], list[i]>>])
    IN  [i \in DOMAIN list |-> sorted[i][2]]

\* the rank of string s among the strings S in str order
StrRank(s, S) == Cardinality({t \in S : StrLT(t, s)})

\* the lists that list(a_set) can be: the elements in some iteration order
RECURSIVE ListsOf(_)
ListsOf(S) ==
    IF S = {} THEN {<<>>}
    ELSE UNION {{<<x>> \o l : l \in ListsOf(S \ {x})} : x \in S}

\* str(n) for n >= 0
RECURSIVE Decimal(_)
Decimal(n) ==
    LET digit == <<"0", "1", "2", "3", "4", "5", "6", "7", "8", "9">>[(n % 10) + 1]
    IN  IF n < 10 THEN <<digit>> ELSE Decimal(n \div 10) \o <<digit>>

----------------------------------------------------------------------------
(* print_table_by_distro_report: loading and sorting *)

\* the key of sorted(..., key=lambda x: x.date): a datetime as an integer, order preserved
Timestamp(d) == ((d.day * 24 + d.hour) * 60 + d.minute) * 60 + d.second

\* all test names of a parsed payload
TestNamesOf(content) == UNION {DOMAIN content[wheel] : wheel \in DOMAIN content}

\* the run ends with exception e
Raise(e) ==
    /\ pc' = "error"
    /\ raised' = e

\* the loading loop that takes a file it cannot read or parse as an empty snapshot
LoadFileToleratingCorrupt ==
    /\ pc = "load"
    /\ Len(test_results_list) < Len(test_results_fname_list)
    /\ LET file == test_results_fname_list[Len(test_results_list) + 1]
           data == IF file.payload.ok THEN file.payload.data ELSE <<>>
       IN  IF file.fname.stamp = Malformed
           THEN /\ Raise("ValueError")
                /\ UNCHANGED test_results_list
           ELSE /\ \E order \in ListsOf(TestNamesOf(data)) :
                       test_results_list' = Append(test_results_list,
                           [fname |-> file.fname,
                            content |-> AnnotatedContent(data),
                            date |-> file.fname.stamp,
                            wheels |-> InferredWheels(data, order)])
                /\ UNCHANGED <<pc, raised>>
    /\ UNCHANGED not_report_vars
    /\ UNCHANGED <<test_results_fname_list, ignore_tests, compare_weekday_num, top_packages,
                   wheel_name_set, all_test_names, wheel_ranks, reference_date,
                   reference_test_file, leading_zeros, summary_rows, wheels>>

\* One pass of the loading loop: parse the payload, take the date from the file name,
\* infer the metadata, append.  A payload that cannot be read or parsed raises.
LoadFile ==
    /\ pc = "load"
    /\ Len(test_results_list) < Len(test_results_fname_list)
    /\ LET file == test_results_fname_list[Len(test_results_list) + 1]
       IN  IF ~file.payload.ok
           THEN /\ Raise("JSONDecodeError")
                /\ UNCHANGED test_results_list
           ELSE IF file.fname.stamp = Malformed
           THEN /\ Raise("ValueError")
                /\ UNCHANGED test_results_list
           ELSE /\ \E order \in ListsOf(TestNamesOf(file.payload.data)) :
                       test_results_list' = Append(test_results_list,
                           [fname |-> file.fname,
                            content |-> AnnotatedContent(file.payload.data),
                            date |-> file.fname.stamp,
                            wheels |-> InferredWheels(file.payload.data, order)])
                /\ UNCHANGED <<pc, raised>>
    /\ UNCHANGED not_report_vars
    /\ UNCHANGED <<test_results_fname_list, ignore_tests, compare_weekday_num, top_packages,
                   wheel_name_set, all_test_names, wheel_ranks, reference_date,
                   reference_test_file, leading_zeros, summary_rows, wheels>>

\* the sort with reverse=True left out
SortedByDateAscending(list) ==
    StableSort(list, [i \in DOMAIN list |-> Timestamp(list[i].date)])

\* the ascending sort read backwards: descending, snapshots of one timestamp in reverse order
SortedByDateTiesReversed(list) ==
    LET ascending == SortedByDateAscending(list)
    IN  [i \in DOMAIN list |-> ascending[Len(list) + 1 - i]]

\* sorted(test_results_list, key=lambda x: x.date, reverse=True)
SortedByDate(list) == StableSort(list, [i \in DOMAIN list |-> 0 - Timestamp(list[i].date)])

\* The sort after the loading loop.  Comparing None with a datetime (or with None) raises
\* TypeError; a list of one element is never compared.
SortFiles ==
    /\ pc = "load"
    /\ Len(test_results_list) = Len(test_results_fname_list)
    /\ IF Len(test_results_list) >= 2
          /\ \E i \in DOMAIN test_results_list : test_results_list[i].date = NoDate
       THEN /\ Raise("TypeError")
            /\ UNCHANGED test_results_list
       ELSE /\ test_results_list' = SortedByDate(test_results_list)
            /\ pc' = "names"
            /\ UNCHANGED raised
    /\ UNCHANGED not_report_vars
    /\ UNCHANGED <<test_results_fname_list, ignore_tests, compare_weekday_num, top_packages,
                   wheel_name_set, all_test_names, wheel_ranks, reference_date,
                   reference_test_file, leading_zeros, summary_rows, wheels>>

\* sorted(list(wheel_name_set), key=str.lower) for the iteration order l of the set
SortedLower(l) ==
    StableSort(l, [i \in DOMAIN l |-> StrRank(Lower(l[i]), {Lower(l[j]) : j \in DOMAIN l})])

\* sorted(list(all_test_names)): the names are distinct strings, so the result does not
\* depend on the iteration order of the set: the name of rank i - 1 is at position i
SortedNames(S) ==
    [i \in 1..Cardinality(S) |-> CHOOSE t \in S : StrRank(t, S) = i - 1]

\* the set all_test_names collects: every test name that is not in ignore_tests
CollectedTestNames(list) ==
    {t \in UNION {TestNamesOf(list[i].content) : i \in DOMAIN list} : t \notin ignore_tests}

\* the package names of the current snapshot alone
WheelNamesOfCurrent(list) == DOMAIN list[1].content

\* the set wheel_name_set collects: the package names of every snapshot
WheelNames(list) == UNION {DOMAIN list[i].content : i \in DOMAIN list}

\* The union of the package names and of the test names, both sorted.  The list made of
\* the set of package names has the set's iteration order, which the stable sort keeps
\* for names that are equal in lower case.
CollectNames ==
    /\ pc = "names"
    /\ \E l \in ListsOf(WheelNames(test_results_list)) :
           wheel_name_set' = SortedLower(l)
    /\ all_test_names' = SortedNames(CollectedTestNames(test_results_list))
    /\ pc' = "ranks"
    /\ UNCHANGED not_report_vars
    /\ UNCHANGED <<test_results_fname_list, ignore_tests, compare_weekday_num, top_packages,
                   raised, test_results_list, wheel_ranks, reference_date,
                   reference_test_file, leading_zeros, summary_rows, wheels>>

----------------------------------------------------------------------------
(* get_wheel_ranks and the rank format *)

\* sorted(packages, key=lambda x: x['download_count'], reverse=True), then the project names
RankedProjects(rows) ==
    LET sorted == StableSort(rows, [i \in DOMAIN rows |-> 0 - rows[i].download_count])
    IN  [i \in DOMAIN sorted |-> sorted[i].project]

\* math.floor(math.log10(n)) + 1 for n >= 1: the number of decimal digits of n
RECURSIVE FloorLog10Plus1(_)
FloorLog10Plus1(n) == IF n < 10 THEN 1 ELSE 1 + FloorLog10Plus1(n \div 10)

\* the keys a row of the response can have
RowKeys == {"project", "download_count"}

\* get_wheel_ranks for what the URL answers: the exception that leaves the function
\* ("" if none) and the list it returns.  The handler of a failed request names
\* requests.RequestsError, which the requests module does not have, so a failed request
\* ends in AttributeError; a body that is not JSON raises out of r.json(), which the
\* handler of KeyError does not catch; a response without 'rows', or a row without
\* 'download_count' or 'project', is a KeyError and gives the empty list.
get_wheel_ranks(response) ==
    IF response.kind = "unreachable"
    THEN [raised |-> "AttributeError", packages |-> <<>>]
    ELSE IF response.kind = "not_json"
    THEN [raised |-> "JSONDecodeError", packages |-> <<>>]
    ELSE IF response.kind = "no_rows"
    THEN [raised |-> "", packages |-> <<>>]
    ELSE IF \E i \in DOMAIN response.rows : ~(RowKeys \subseteq DOMAIN response.rows[i])
    THEN [raised |-> "", packages |-> <<>>]
    ELSE [raised |-> "", packages |-> RankedProjects(response.rows)]

\* The ranking fetch and the width of the rank format: math.log10(0) raises ValueError
\* when the list is empty.
GetRanks ==
    /\ pc = "ranks"
    /\ LET fetched == get_wheel_ranks(top_packages)
       IN  IF fetched.raised # ""
           THEN /\ Raise(fetched.raised)
                /\ UNCHANGED <<wheel_ranks, leading_zeros>>
           ELSE IF Len(fetched.packages) = 0
           THEN /\ Raise("ValueError")
                /\ wheel_ranks' = fetched.packages
                /\ UNCHANGED leading_zeros
           ELSE /\ wheel_ranks' = fetched.packages
                /\ leading_zeros' = FloorLog10Plus1(Len(fetched.packages))
                /\ pc' = "summary"
                /\ UNCHANGED raised
    /\ UNCHANGED not_report_vars
    /\ UNCHANGED <<test_results_fname_list, ignore_tests, compare_weekday_num, top_packages,
                   test_results_list, wheel_name_set, all_test_names, reference_date,
                   reference_test_file, summary_rows, wheels>>

----------------------------------------------------------------------------
(* The summary comparison *)

\* reference_test_file = None
NoRef == 0

\* compare_weekday_num = None; an int a is <<a>>
NoWeekday == <<>>

\* the week stepped back only when the current weekday is strictly before compare_weekday
ReferenceDateStrictlyBefore(current_date, compare_weekday) ==
    LET at_2359 == [current_date EXCEPT !.hour = 23, !.minute = 59]
        in_week == AddDays(AddDays(at_2359, 0 - (at_2359.day % 7)), compare_weekday)
    IN  IF (current_date.day % 7) < compare_weekday
        THEN AddDays(in_week, 0 - 7)
        ELSE in_week

\* the weekday of the current week, never a week back
ReferenceDateThisWeek(current_date, compare_weekday) ==
    LET at_2359 == [current_date EXCEPT !.hour = 23, !.minute = 59]
    IN  AddDays(AddDays(at_2359, 0 - weekday(at_2359)), compare_weekday)

\* the weekday of the week before, whatever the current weekday
ReferenceDateLastWeek(current_date, compare_weekday) ==
    LET at_2359 == [current_date EXCEPT !.hour = 23, !.minute = 59]
    IN  AddDays(AddDays(at_2359, 0 - weekday(at_2359)), compare_weekday - 7)

\* lines 275-279: the current date at 23:59 (the seconds stay), moved to weekday
\* compare_weekday of its week, and a week back when the current weekday is on or
\* before compare_weekday
ReferenceDate(current_date, compare_weekday) ==
    LET at_2359 == [current_date EXCEPT !.hour = 23, !.minute = 59]
        in_week == AddDays(AddDays(at_2359, 0 - weekday(at_2359)), compare_weekday)
    IN  IF weekday(current_date) <= compare_weekday
        THEN AddDays(in_week, 0 - 7)
        ELSE in_week

\* the first tf with tf.date <= reference_date
FindReferenceNotAfter(list, ref_date) ==
    IF \E i \in DOMAIN list : ~DateLT(ref_date, list[i].date)
    THEN CHOOSE i \in DOMAIN list :
             /\ ~DateLT(ref_date, list[i].date)
             /\ \A j \in 1..(i - 1) : DateLT(ref_date, list[j].date)
    ELSE NoRef

\* lines 281-285: the position of the first tf, from position i on, with
\* tf.date < reference_date
RECURSIVE FirstBefore(_, _, _)
FirstBefore(list, i, ref_date) ==
    IF i > Len(list) THEN NoRef
    ELSE IF DateLT(list[i].date, ref_date) THEN i
    ELSE FirstBefore(list, i + 1, ref_date)

FindReference(list, ref_date) == FirstBefore(list, 1, ref_date)

\* get_wheels_with_result: the packages, not in ignore, with a test whose `key` is `result`
get_wheels_with_result(wheel_dict, key, result, ignore) ==
    {wheel_name \in DOMAIN wheel_dict :
        /\ wheel_name \notin ignore
        /\ \E test_name \in DOMAIN wheel_dict[wheel_name] :
               wheel_dict[wheel_name][test_name][key] = result}

get_failing_tests(wheel_dict, ignore) ==
    get_wheels_with_result(wheel_dict, "test_passed", FALSE, ignore)

labels == <<"date", "number of wheels", "all tests passed", "some tests failed",
            "each dist has passing option">>

\* the column whose failures are counted by failed test, not by package
SummaryColumnCountingTests(tf) ==
    LET count == Cardinality(DOMAIN tf.content)
        failures == Cardinality({<<w, t>> \in UNION {{w} \X DOMAIN tf.content[w] :
                                                         w \in DOMAIN tf.content} :
                                     ~tf.content[w][t].test_passed})
        passing_options == Cardinality({w \in DOMAIN tf.wheels :
                                            tf.wheels[w].each_distribution_has_passing_option})
    IN  <<StrfDate(tf.date), count, count - failures, failures, passing_options>>

\* lines 296-299: one column of the summary; get_failing_tests is called without the
\* ignore list
SummaryColumn(tf) ==
    LET count == Cardinality(DOMAIN tf.content)
        failures == Cardinality(get_failing_tests(tf.content, {}))
        passing_options == Cardinality({w \in DOMAIN tf.wheels :
                                            tf.wheels[w].each_distribution_has_passing_option})
    IN  <<StrfDate(tf.date), count, count - failures, failures, passing_options>>

S_not_available == <<"N", "/", "A">>

\* f"+{d}" if d >= 0 else str(d)
SignedDelta(d) == IF d >= 0 THEN <<"+">> \o Decimal(d) ELSE <<"-">> \o Decimal(0 - d)

\* the difference taken as reference minus current
SummaryRowsReferenceMinusCurrent(columns) ==
    [i \in DOMAIN labels |->
        LET values == [c \in DOMAIN columns |-> columns[c][i]]
        IN  [label |-> labels[i],
             values |-> values,
             diff |-> IF labels[i] = "date" THEN NoneValue
                      ELSE IF Len(columns) = 2
                      THEN SignedDelta(values[1] - values[Len(values)])
                      ELSE S_not_available]]

\* lines 301-311
SummaryRows(columns) ==
    [i \in DOMAIN labels |->
        LET values == [c \in DOMAIN columns |-> columns[c][i]]
        IN  [label |-> labels[i],
             values |-> values,
             diff |-> IF labels[i] = "date" THEN NoneValue
                      ELSE IF Len(columns) = 2
                      THEN SignedDelta(values[Len(values)] - values[1])
                      ELSE S_not_available]]

\* lines 287-291
FilesToSummarize(list, ref) ==
    IF ref # NoRef THEN <<list[ref], list[1]>> ELSE <<list[1]>>

\* the weekday that is Monday when none is given
WeekdayMondayByDefault(compare_weekday) ==
    IF compare_weekday = NoWeekday THEN <<0>> ELSE compare_weekday

\* line 274, `if type(compare_weekday_num) is int`: the weekday the summary hinges on, none
\* when the argument is None
WeekdayToCompare(compare_weekday) == compare_weekday

\* The summary rows.  Without a weekday the block is skipped; a current snapshot whose
\* date is None has no replace() and raises AttributeError.
BuildSummary ==
    /\ pc = "summary"
    /\ IF WeekdayToCompare(compare_weekday_num) = NoWeekday
       THEN /\ pc' = "wheels"
            /\ UNCHANGED <<raised, reference_date, reference_test_file, summary_rows>>
       ELSE IF test_results_list[1].date = NoDate
       THEN /\ Raise("AttributeError")
            /\ UNCHANGED <<reference_date, reference_test_file, summary_rows>>
       ELSE LET ref_date == ReferenceDate(test_results_list[1].date,
                                          WeekdayToCompare(compare_weekday_num)[1])
                ref == FindReference(test_results_list, ref_date)
                files == FilesToSummarize(test_results_list, ref)
            IN  /\ reference_date' = ref_date
                /\ reference_test_file' = ref
                /\ summary_rows' = SummaryRows([c \in DOMAIN files |-> SummaryColumn(files[c])])
                /\ pc' = "wheels"
                /\ UNCHANGED raised
    /\ UNCHANGED not_report_vars
    /\ UNCHANGED <<test_results_fname_list, ignore_tests, compare_weekday_num, top_packages,
                   test_results_list, wheel_name_set, all_test_names, wheel_ranks,
                   leading_zeros, wheels>>

----------------------------------------------------------------------------
(* The historical lookup and the package records *)

S_each_distribution_has_passing_option == <<"e", "a", "c", "h", "-", "d", "i", "s", "t", "r", "i", "b", "u", "t", "i", "o", "n", "-", "h", "a", "s", "-", "p", "a", "s", "s", "i", "n", "g", "-", "o", "p", "t", "i", "o", "n">>

\* '' returned when no older snapshot passes
EmptyString == <<>>

\* '<br /><span class="file-indicator">last passed on ' + strftime("%B %d, %Y") + '</span>'
LastPassedOn(d) == <<"last passed on", StrfDate(d)>>

\* the scan that gives up at the first file in which the package or the test is missing
RECURSIVE ScanLastPassingStopAtMissing(_, _, _)
ScanLastPassingStopAtMissing(files, wheel, test_name) ==
    IF files = <<>> THEN EmptyString
    ELSE LET tf == Head(files)
             key_error ==
                 IF test_name = S_each_distribution_has_passing_option
                 THEN wheel \notin DOMAIN tf.wheels
                 ELSE wheel \notin DOMAIN tf.content \/ test_name \notin DOMAIN tf.content[wheel]
             passed ==
                 IF test_name = S_each_distribution_has_passing_option
                 THEN tf.wheels[wheel].each_distribution_has_passing_option
                 ELSE tf.content[wheel][test_name].test_passed
         IN  IF key_error THEN EmptyString
             ELSE IF passed THEN LastPassedOn(tf.date)
             ELSE ScanLastPassingStopAtMissing(Tail(files), wheel, test_name)

\* the loop of date_of_last_passing over the files `files`; a KeyError (the package or
\* the test is missing) goes on with the next file
RECURSIVE ScanLastPassing(_, _, _)
ScanLastPassing(files, wheel, test_name) ==
    IF files = <<>> THEN EmptyString
    ELSE LET tf == Head(files)
             key_error ==
                 IF test_name = S_each_distribution_has_passing_option
                 THEN wheel \notin DOMAIN tf.wheels
                 ELSE wheel \notin DOMAIN tf.content \/ test_name \notin DOMAIN tf.content[wheel]
             passed ==
                 IF test_name = S_each_distribution_has_passing_option
                 THEN tf.wheels[wheel].each_distribution_has_passing_option
                 ELSE tf.content[wheel][test_name].test_passed
         IN  IF key_error THEN ScanLastPassing(Tail(files), wheel, test_name)
             ELSE IF passed THEN LastPassedOn(tf.date)
             ELSE ScanLastPassing(Tail(files), wheel, test_name)

\* the scan started at the current snapshot
date_of_last_passing_from_current(wheel, test_name) ==
    ScanLastPassing(test_results_list, wheel, test_name)

\* the closure date_of_last_passing: the scan of test_results_list[1:]
date_of_last_passing(wheel, test_name) ==
    ScanLastPassing(Tail(test_results_list), wheel, test_name)

\* the position looked up without regard to case
RankOfIgnoringCase(wheel_name) ==
    IF \E i \in DOMAIN wheel_ranks : Lower(wheel_ranks[i]) = Lower(wheel_name)
    THEN CHOOSE i \in DOMAIN wheel_ranks :
             /\ Lower(wheel_ranks[i]) = Lower(wheel_name)
             /\ \A j \in 1..(i - 1) : Lower(wheel_ranks[j]) # Lower(wheel_name)
    ELSE 0

\* wheel_ranks.index(wheel_name) + 1, or 0 when index() raises ValueError
RankOf(wheel_name) ==
    IF \E i \in DOMAIN wheel_ranks : wheel_ranks[i] = wheel_name
    THEN CHOOSE i \in DOMAIN wheel_ranks :
             /\ wheel_ranks[i] = wheel_name
             /\ \A j \in 1..(i - 1) : wheel_ranks[j] # wheel_name
    ELSE 0

\* f'{n:0{width}d}'
RECURSIVE ZeroPadded(_, _)
ZeroPadded(digits, width) ==
    IF Len(digits) >= width THEN digits ELSE ZeroPadded(<<"0">> \o digits, width)

\* the record with the annotations of the failed tests only, a timeout left out
WheelRecordFailedOnly(wheel_name) ==
    LET current == test_results_list[1]
        in_current == wheel_name \in DOMAIN current.wheels
        results == IF wheel_name \in DOMAIN current.content
                   THEN current.content[wheel_name] ELSE <<>>
        failing == {t \in DOMAIN results :
                       /\ \E i \in DOMAIN all_test_names : all_test_names[i] = t
                       /\ ~results[t].test_passed}
    IN  [name |-> wheel_name,
         rank |-> IF RankOf(wheel_name) = 0 THEN <<"~">>
                  ELSE ZeroPadded(Decimal(RankOf(wheel_name)), leading_zeros),
         distro_passing |-> IF in_current
                            THEN <<current.wheels[wheel_name].each_distribution_has_passing_option>>
                            ELSE <<>>,
         distro_last_passing |->
             IF in_current /\ ~current.wheels[wheel_name].each_distribution_has_passing_option
             THEN date_of_last_passing(wheel_name, S_each_distribution_has_passing_option)
             ELSE EmptyString,
         results |-> results,
         last_passing |-> [t \in failing |-> date_of_last_passing(wheel_name, t)]]

\* lines 331-358: the record of one package
WheelRecord(wheel_name) ==
    LET current == test_results_list[1]
        in_current == wheel_name \in DOMAIN current.wheels
        results == IF wheel_name \in DOMAIN current.content
                   THEN current.content[wheel_name] ELSE <<>>
        failing == {t \in DOMAIN results :
                       /\ \E i \in DOMAIN all_test_names : all_test_names[i] = t
                       /\ (~results[t].test_passed \/ results[t].timeout)}
    IN  [name |-> wheel_name,
         rank |-> IF RankOf(wheel_name) = 0 THEN <<"~">>
                  ELSE ZeroPadded(Decimal(RankOf(wheel_name)), leading_zeros),
         distro_passing |-> IF in_current
                            THEN <<current.wheels[wheel_name].each_distribution_has_passing_option>>
                            ELSE <<>>,
         distro_last_passing |->
             IF in_current /\ ~current.wheels[wheel_name].each_distribution_has_passing_option
             THEN date_of_last_passing(wheel_name, S_each_distribution_has_passing_option)
             ELSE EmptyString,
         results |-> results,
         last_passing |-> [t \in failing |-> date_of_last_passing(wheel_name, t)]]

\* The loop that builds the package records.
BuildWheels ==
    /\ pc = "wheels"
    /\ wheels' = [i \in DOMAIN wheel_name_set |-> WheelRecord(wheel_name_set[i])]
    /\ pc' = "render"
    /\ UNCHANGED not_report_vars
    /\ UNCHANGED <<test_results_fname_list, ignore_tests, compare_weekday_num, top_packages,
                   raised, test_results_list, wheel_name_set, all_test_names, wheel_ranks,
                   reference_date, reference_test_file, leading_zeros, summary_rows>>

\* The call of template.render: current.date.strftime raises AttributeError when the date
\* is None.
Render ==
    /\ pc = "render"
    /\ IF test_results_list[1].date = NoDate
       THEN Raise("AttributeError")
       ELSE /\ pc' = "done"
            /\ UNCHANGED raised
    /\ UNCHANGED not_report_vars
    /\ UNCHANGED <<test_results_fname_list, ignore_tests, compare_weekday_num, top_packages,
                   test_results_list, wheel_name_set, all_test_names, wheel_ranks,
                   reference_date, reference_test_file, leading_zeros, summary_rows, wheels>>

\* generate_website of fetch-and-publish.py after the report has come back: index.html
\* is written, unless the output directory cannot be made, and then the function returns
\* without writing.  An exception of print_table_by_distro_report is not caught there, so
\* a run that ended in an exception writes nothing.
WriteIndex ==
    /\ pc = "done"
    /\ \E made \in BOOLEAN : pc' = IF made THEN "written" ELSE "not_written"
    /\ UNCHANGED not_report_vars
    /\ UNCHANGED <<test_results_fname_list, ignore_tests, compare_weekday_num, top_packages,
                   raised, test_results_list, wheel_name_set, all_test_names, wheel_ranks,
                   reference_date, reference_test_file, leading_zeros, summary_rows, wheels>>

Next ==
    \/ LoadFile
    \/ SortFiles
    \/ CollectNames
    \/ GetRanks
    \/ BuildSummary
    \/ BuildWheels
    \/ Render
    \/ WriteIndex

----------------------------------------------------------------------------
(* Inputs *)

S_pkgA == <<"p", "k", "g", "A">>
S_pkgB == <<"p", "k", "g", "B">>
S_focal_apt == <<"f", "o", "c", "a", "l", "-", "a", "p", "t">>
S_amazon_linux2023_yum == <<"a", "m", "a", "z", "o", "n", "-", "l", "i", "n", "u", "x", "2", "0", "2", "3", "-", "y", "u", "m">>
S_resolute == <<"r", "e", "s", "o", "l", "u", "t", "e">>

\* first calendar day of the model: a Monday, one week after day 0
FirstDay == 7

Morning(d) == [day |-> d, hour |-> 10, minute |-> 0, second |-> 30]
LateEvening(d) == [day |-> d, hour |-> 23, minute |-> 59, second |-> 0]

\* the parsed outcome of one test, as far as the report reads it
Outcomes(timeouts) == [test_passed : BOOLEAN, timeout : timeouts]

TestDicts(tests, outcomes) == UNION {[T -> outcomes] : T \in SUBSET tests}

Contents(packages, tests, outcomes) ==
    UNION {[P -> TestDicts(tests, outcomes)] : P \in SUBSET packages}

Payloads(contents) == {[ok |-> TRUE, data |-> c] : c \in contents}

\* a file that cannot be read or does not parse
CorruptPayload == [ok |-> FALSE, data |-> <<>>]

\* the file lists whose timestamps are one of stamp_lists; the file at position i is
\* named by i and its timestamp, and has any of the payloads
RawFiles(stamp_lists, payloads) ==
    UNION {{[i \in DOMAIN ss |-> [fname |-> [id |-> i, stamp |-> ss[i]], payload |-> pp[i]]] :
                pp \in [DOMAIN ss -> payloads]} : ss \in stamp_lists}

\* the lists of 1 to `most` of the timestamps `stamps`, in any order, repeats allowed
StampLists(most, stamps) == UNION {[1..n -> stamps] : n \in 1..most}

\* the ranking as the URL serves it
RowsResponse ==
    [kind |-> "rows",
     rows |-> <<[project |-> S_pkgB, download_count |-> 10],
                [project |-> S_pkgA, download_count |-> 20]>>]

\* the selection loop of fetch_previous_results does not run
SelectIdle ==
    /\ days_ago_arg = <<>>
    /\ response_artifacts = <<>>
    /\ days_ago_list = <<>>
    /\ artifacts = <<>>
    /\ artifact_pos = 0
    /\ selected = <<>>
    /\ select_pc = "off"

\* fetch_local_results does not run
LocalIdle ==
    /\ local_variant = ""
    /\ results_dir = {}
    /\ exclude_fname = NoneValue
    /\ max_results = 0
    /\ fnames = <<>>
    /\ local_pc = "off"

\* the extraction tool does not run
ExtractIdle ==
    /\ commits = <<>>
    /\ pending = {}
    /\ executions = <<>>
    /\ saved = <<>>
    /\ extract_pc = "off"

InitWith(file_lists, ignores, weekdays, responses) ==
    /\ test_results_fname_list \in file_lists
    /\ ignore_tests \in ignores
    /\ compare_weekday_num \in weekdays
    /\ top_packages \in responses
    /\ pc = "load"
    /\ raised = ""
    /\ test_results_list = <<>>
    /\ wheel_name_set = <<>>
    /\ all_test_names = <<>>
    /\ wheel_ranks = <<>>
    /\ reference_date = NoDate
    /\ reference_test_file = NoRef
    /\ leading_zeros = 0
    /\ summary_rows = <<>>
    /\ wheels = <<>>
    /\ fetch_results = <<>>
    /\ previous_result = 0
    /\ result_fnames = <<>>
    /\ fetch_pc = "off"
    /\ SelectIdle
    /\ LocalIdle
    /\ ExtractIdle

\* the outcomes a test has in the history runs: passed, failed, passed after a timeout
HistoryOutcomes ==
    {[test_passed |-> TRUE, timeout |-> FALSE],
     [test_passed |-> FALSE, timeout |-> FALSE],
     [test_passed |-> TRUE, timeout |-> TRUE]}

\* History: up to MaxFiles daily files, given oldest first or newest first; at most one
\* package, with at most one test
HistoryStampLists ==
    UNION {{[i \in 1..n |-> Morning(FirstDay + i - 1)], [i \in 1..n |-> Morning(FirstDay + n - i)]} :
               n \in 1..MaxFiles}

HistoryContents == Contents({S_pkgA}, {S_focal}, HistoryOutcomes)

Init ==
    InitWith(RawFiles(HistoryStampLists, Payloads(HistoryContents)),
             {{}}, {NoWeekday}, {RowsResponse})

Spec == Init /\ [][Next]_vars

\* Sorting: up to MaxFiles files in any order, with close or equal timestamps, one payload
SortStamps ==
    {Morning(FirstDay), LateEvening(FirstDay), Morning(FirstDay + 1),
     LateEvening(FirstDay + 1), Morning(FirstDay + 2)}

SortPayload ==
    [ok |-> TRUE, data |-> S_pkgA :> (S_focal :> [test_passed |-> TRUE, timeout |-> FALSE])]

InitSort ==
    InitWith(RawFiles(StampLists(MaxFiles, SortStamps), {SortPayload}),
             {{}}, {NoWeekday}, {RowsResponse})

SpecSort == InitSort /\ [][Next]_vars

\* Metadata: one file; one package with tests of the same, of different and of no
\* recognised distribution, and a second package with at most one test
MetaTests == {S_focal, S_focal_apt, S_amazon_linux2, S_amazon_linux2023_yum, S_resolute}

MetaContents ==
    {a @@ b : a \in Contents({S_pkgA}, MetaTests, Outcomes({FALSE})),
              b \in Contents({S_pkgB}, {S_focal}, Outcomes({FALSE}))}

InitMeta ==
    InitWith(RawFiles({<<Morning(FirstDay)>>}, Payloads(MetaContents)),
             {{}}, {NoWeekday}, {RowsResponse})

SpecMeta == InitMeta /\ [][Next]_vars

\* Names: one file, one package, one test whose name is a distribution-like prefix
\* followed by a package-manager-like suffix
S_amazon_linux2023 == <<"a", "m", "a", "z", "o", "n", "-", "l", "i", "n", "u", "x", "2", "0", "2", "3">>
S_centos == <<"c", "e", "n", "t", "o", "s">>

NamePrefixes ==
    {S_amazon_linux2, S_amazon_linux2023, S_centos8, S_centos, S_focal, S_jammy, S_noble,
     S_resolute}

NameSuffixes ==
    {<<>>, <<"-">> \o S_yum, <<"-">> \o S_apt, <<"-">> \o S_conda, <<"-", "p", "y", "3", "8">>,
     <<"-">> \o S_focal}

NameUniverse == {prefix \o suffix : prefix \in NamePrefixes, suffix \in NameSuffixes}

InitNames ==
    InitWith(RawFiles({<<Morning(FirstDay)>>},
                      Payloads({S_pkgA :> (t :> o) : t \in NameUniverse,
                                                     o \in Outcomes({FALSE})})),
             {{}}, {NoWeekday}, {RowsResponse})

SpecNames == InitNames /\ [][Next]_vars

\* Calendar: up to MaxFiles files with distinct timestamps, given newest first (as
\* fetch_local_results lists them), on every weekday and at two times of day; every
\* anchor weekday; one payload
CalendarStamps ==
    UNION {{Morning(d), LateEvening(d)} : d \in FirstDay..LastDay}

NewestFirst(stamps) ==
    \A i \in 1..(Len(stamps) - 1) : DateLT(stamps[i + 1], stamps[i])

InitCalendar ==
    InitWith(RawFiles({ss \in StampLists(MaxFiles, CalendarStamps) : NewestFirst(ss)},
                      {SortPayload}),
             {{}}, {<<a>> : a \in 0..6}, {RowsResponse})

SpecCalendar == InitCalendar /\ [][Next]_vars

\* Summary: two files a week apart in either order, two packages, compared on Mondays
SummaryContents ==
    {a @@ b : a \in Contents({S_pkgA}, {S_focal, S_focal_apt}, Outcomes({FALSE})),
              b \in Contents({S_pkgB}, {S_focal}, Outcomes({FALSE}))}

InitSummary ==
    InitWith(RawFiles({<<Morning(FirstDay), Morning(FirstDay + 7)>>,
                       <<Morning(FirstDay + 7), Morning(FirstDay)>>},
                      Payloads(SummaryContents)),
             {{}}, {<<0>>}, {RowsResponse})

SpecSummary == InitSummary /\ [][Next]_vars

\* Ignore list: one file, two packages with tests focal and focal-apt, compared on
\* Mondays; nothing ignored, or the name of a package, or the name of a test
IgnoreContents ==
    {a @@ b : a \in Contents({S_pkgA}, {S_focal, S_focal_apt}, Outcomes({FALSE})),
              b \in Contents({S_pkgB}, {S_focal, S_focal_apt}, Outcomes({FALSE}))}

InitIgnore ==
    InitWith(RawFiles({<<Morning(FirstDay)>>}, Payloads(IgnoreContents)),
             {{}, {S_pkgB}, {S_focal_apt}}, {<<0>>}, {RowsResponse})

SpecIgnore == InitIgnore /\ [][Next]_vars

\* Ranking: one file with any of three packages, one of them differing from a ranked
\* project only in case and one that is not ranked; the URL answers 1 to MaxRanks rows in
\* any rotation of the download counts, rows with equal counts, or a failure
S_PkgA == <<"P", "k", "g", "A">>
S_pkgC == <<"p", "k", "g", "C">>

\* the project of row i: pkgA, pkgB, then projects that no result file has
RankedProject(i) ==
    IF i = 1 THEN S_pkgA ELSE IF i = 2 THEN S_pkgB ELSE <<"f">> \o Decimal(i)

RankRows(n, shift) ==
    [i \in 1..n |-> [project |-> RankedProject(i), download_count |-> (i + shift) % n]]

TiedRows(n) == [i \in 1..n |-> [project |-> RankedProject(i), download_count |-> 7]]

\* answers from which get_wheel_ranks gets no list: no connection, a body that is not
\* JSON, JSON without 'rows', a row without one of its keys
FailedResponses ==
    {[kind |-> "unreachable"], [kind |-> "not_json"], [kind |-> "no_rows"],
     [kind |-> "rows", rows |-> <<[project |-> S_pkgA, download_count |-> 3],
                                  [project |-> S_pkgB]>>],
     [kind |-> "rows", rows |-> <<[download_count |-> 3]>>]}

RankResponses ==
    UNION {{[kind |-> "rows", rows |-> RankRows(n, shift)] : shift \in 0..(n - 1)} \cup
           {[kind |-> "rows", rows |-> TiedRows(n)]} : n \in 1..MaxRanks}
    \cup {[kind |-> "rows", rows |-> <<>>]}
    \cup FailedResponses

RankContents ==
    UNION {[P -> {S_focal :> [test_passed |-> TRUE, timeout |-> FALSE]}] :
               P \in SUBSET {S_pkgA, S_PkgA, S_pkgC}}

InitRanks ==
    InitWith(RawFiles({<<Morning(FirstDay)>>}, Payloads(RankContents)),
             {{}}, {NoWeekday}, RankResponses)

SpecRanks == InitRanks /\ [][Next]_vars

\* Records: one or two daily files in either order, compared on Mondays; each of two
\* packages that are equal in lower case is absent, passing or failing in each file, and
\* a third is absent or passing
RecordStampLists ==
    {<<Morning(FirstDay)>>, <<Morning(FirstDay), Morning(FirstDay + 1)>>,
     <<Morning(FirstDay + 1), Morning(FirstDay)>>}

RecordContents ==
    {a @@ b : a \in UNION {[P -> {S_focal :> o : o \in Outcomes({FALSE})}] :
                               P \in (SUBSET {S_pkgA, S_PkgA}) \ {{}}},
              b \in UNION {[P -> {S_focal :> [test_passed |-> TRUE, timeout |-> FALSE]}] :
                               P \in SUBSET {S_pkgB}}}

InitRecords ==
    InitWith(RawFiles(RecordStampLists, Payloads(RecordContents)),
             {{}}, {<<0>>}, {RowsResponse})

SpecRecords == InitRecords /\ [][Next]_vars

\* Annotations: the current file alone or with the file of the day before; one package
\* with the tests focal and focal-apt, passed, failed or passed after a timeout; nothing
\* ignored, or the test focal-apt
AnnotationStampLists ==
    {<<Morning(FirstDay + 1)>>, <<Morning(FirstDay + 1), Morning(FirstDay)>>}

AnnotationContents == Contents({S_pkgA}, {S_focal, S_focal_apt}, HistoryOutcomes)

InitAnnotations ==
    InitWith(RawFiles(AnnotationStampLists, Payloads(AnnotationContents)),
             {{}, {S_focal_apt}}, {NoWeekday}, {RowsResponse})

SpecAnnotations == InitAnnotations /\ [][Next]_vars

\* Loading: up to MaxFiles files; a file name has a timestamp, none, or one that is not
\* in the format; a file can be read and parsed, or not; with and without the comparison
LoadStamps == {Morning(FirstDay), Morning(FirstDay + 1), NoDate, Malformed}

InitLoad ==
    InitWith(RawFiles(StampLists(MaxFiles, LoadStamps), {SortPayload, CorruptPayload}),
             {{}}, {NoWeekday, <<0>>}, {RowsResponse})

SpecLoad == InitLoad /\ [][Next]_vars

----------------------------------------------------------------------------
(* fetch_previous_results of test/generate-website.py: the download loop *)

S_xz == <<".", "x", "z">>

\* fname[-3:] == '.xz'
IsXzName(fname) ==
    IF Len(fname) >= 3 THEN SubSeq(fname, Len(fname) - 2, Len(fname)) = S_xz
    ELSE fname = S_xz

\* lines 161-173: the file the namelist loop appends, if any: the first member with a
\* .xz name that extracts; a .xz member that fails to extract is passed over
RECURSIVE FirstExtracted(_)
FirstExtracted(members) ==
    IF members = <<>> THEN <<>>
    ELSE IF IsXzName(Head(members).fname) /\ Head(members).extracts
    THEN <<Head(members).fname>>
    ELSE FirstExtracted(Tail(members))

\* one pass of the download loop with the handler of zipfile.BadZipFile left out
FetchedFromUncaughtBadZip(artifact) ==
    IF artifact.download # "ok"
    THEN [raised |-> "", fnames |-> <<>>]
    ELSE IF ~artifact.is_zip
    THEN [raised |-> "BadZipFile", fnames |-> <<>>]
    ELSE [raised |-> "", fnames |-> FirstExtracted(artifact.members)]

\* lines 143-176, one pass of the download loop: the exception that leaves it ("" if
\* none) and the files it appends.  A request that raises, a status other than 200 and
\* a body that is not a zip archive are each handled with `continue`.
FetchedFrom(artifact) ==
    IF artifact.download # "ok"
    THEN [raised |-> "", fnames |-> <<>>]
    ELSE IF ~artifact.is_zip
    THEN [raised |-> "", fnames |-> <<>>]
    ELSE [raised |-> "", fnames |-> FirstExtracted(artifact.members)]

\* lines 136-138 and 142-176: without a selected artifact the function returns [] at
\* once; else the next artifact is downloaded, opened and searched
FetchArtifact ==
    /\ fetch_pc = "loop"
    /\ previous_result < Len(fetch_results)
    /\ LET fetched == FetchedFrom(fetch_results[previous_result + 1])
       IN  IF fetched.raised # ""
           THEN /\ fetch_pc' = "error"
                /\ UNCHANGED <<previous_result, result_fnames>>
           ELSE /\ result_fnames' = result_fnames \o fetched.fnames
                /\ previous_result' = previous_result + 1
                /\ UNCHANGED fetch_pc
    /\ UNCHANGED fetch_results
    /\ UNCHANGED <<report_vars, select_vars, local_vars, extract_vars>>

\* lines 136-138 and 178-181: return [] without a selected artifact, result_fnames after
\* the loop
ReturnFnames ==
    /\ fetch_pc = "loop"
    /\ previous_result = Len(fetch_results)
    /\ fetch_pc' = "returned"
    /\ UNCHANGED <<fetch_results, previous_result, result_fnames>>
    /\ UNCHANGED <<report_vars, select_vars, local_vars, extract_vars>>

NextFetch ==
    \/ FetchArtifact
    \/ ReturnFnames

S_results_1_json_xz == <<"r", "e", "s", "u", "l", "t", "s", "-", "1", ".", "j", "s", "o", "n", ".", "x", "z">>
S_results_2_json_xz == <<"r", "e", "s", "u", "l", "t", "s", "-", "2", ".", "j", "s", "o", "n", ".", "x", "z">>
S_log_txt == <<"l", "o", "g", ".", "t", "x", "t">>
S_xz_txt == <<"x", "z", ".", "t", "x", "t">>

\* the members an archive can have: a name and whether the member can be read and
\* written out
ArchiveMembers ==
    [fname : {S_results_1_json_xz, S_results_2_json_xz}, extracts : BOOLEAN]
        \cup [fname : {S_log_txt, S_xz_txt}, extracts : {TRUE}]

\* what the download of an artifact can give: an exception, a status other than 200, a
\* body that is no zip archive, an archive of up to two members
Artifacts ==
    {[download |-> d, is_zip |-> FALSE, members |-> <<>>] : d \in {"exception", "status", "ok"}}
    \cup {[download |-> "ok", is_zip |-> TRUE, members |-> m] :
              m \in UNION {[1..n -> ArchiveMembers] : n \in 0..2}}

InitFetch ==
    /\ fetch_results \in UNION {[1..n -> Artifacts] : n \in 0..MaxArtifacts}
    /\ previous_result = 0
    /\ result_fnames = <<>>
    /\ fetch_pc = "loop"
    /\ test_results_fname_list = <<>>
    /\ ignore_tests = {}
    /\ compare_weekday_num = NoWeekday
    /\ top_packages = RowsResponse
    /\ pc = "off"
    /\ raised = ""
    /\ test_results_list = <<>>
    /\ wheel_name_set = <<>>
    /\ all_test_names = <<>>
    /\ wheel_ranks = <<>>
    /\ reference_date = NoDate
    /\ reference_test_file = NoRef
    /\ leading_zeros = 0
    /\ summary_rows = <<>>
    /\ wheels = <<>>
    /\ SelectIdle
    /\ LocalIdle
    /\ ExtractIdle

SpecFetch == InitFetch /\ [][NextFetch]_vars

----------------------------------------------------------------------------
(* fetch_local_results of test/fetch-and-publish.py and test/generate-website.py *)

\* most files in the results directory
MaxDirFiles == 4
\* greatest cap on the history
MaxResults == 3

S_results_dash == <<"r", "e", "s", "u", "l", "t", "s", "-">>
S_dot_json == <<".", "j", "s", "o", "n">>
S_dot_json_xz == <<".", "j", "s", "o", "n", ".", "x", "z">>
S_fetch_and_publish == "fetch-and-publish.py"
S_generate_website == "generate-website.py"

\* os.path.basename: what follows the last '/'
Basename(path) ==
    LET slashes == {i \in DOMAIN path : path[i] = "/"}
    IN  IF slashes = {} THEN path
        ELSE LET last == CHOOSE i \in slashes : \A j \in slashes : j <= i
             IN  SubSeq(path, last + 1, Len(path))

\* fnmatch of a base name against 'results-*.json*'
MatchesJsonAny(name) ==
    /\ Len(name) >= Len(S_results_dash)
    /\ SubSeq(name, 1, Len(S_results_dash)) = S_results_dash
    /\ IsSubstring(S_dot_json, SubSeq(name, Len(S_results_dash) + 1, Len(name)))

\* fnmatch of a base name against 'results-*.json.xz'
MatchesJsonXz(name) ==
    /\ Len(name) >= Len(S_results_dash) + Len(S_dot_json_xz)
    /\ SubSeq(name, 1, Len(S_results_dash)) = S_results_dash
    /\ SubSeq(name, Len(name) - Len(S_dot_json_xz) + 1, Len(name)) = S_dot_json_xz

\* the pattern of the script `variant`
Matches(variant, name) ==
    IF variant = S_fetch_and_publish THEN MatchesJsonAny(name) ELSE MatchesJsonXz(name)

\* sorted(list, reverse=True): descending by str order; all paths share the directory, so the
\* order of the paths is the order of the base names
SortedByNameDescending(list) ==
    StableSort(list, [i \in DOMAIN list |-> 0 - StrRank(list[i], {list[j] : j \in DOMAIN list})])

\* the slice that keeps the last max names
LastOf(list, max) ==
    IF Len(list) > max THEN SubSeq(list, Len(list) - max + 1, Len(list)) ELSE list

\* if len(fnames) > max_results: fnames = fnames[:max_results]
LimitTo(list, max) ==
    IF Len(list) > max THEN SubSeq(list, 1, max) ELSE list

\* sorted(glob.glob(...), reverse=True); glob lists the directory in any order
GlobResults ==
    /\ local_pc = "glob"
    /\ \E listing \in ListsOf({name \in results_dir : Matches(local_variant, name)}) :
           fnames' = SortedByNameDescending(listing)
    /\ local_pc' = "exclude"
    /\ UNCHANGED <<local_variant, results_dir, exclude_fname, max_results>>
    /\ UNCHANGED <<report_vars, fetch_vars, select_vars, extract_vars>>

\* if exclude_fname: drop the names whose base name is that of exclude_fname; the variant
\* without max_results returns here
ExcludeCurrent ==
    /\ local_pc = "exclude"
    /\ fnames' = IF exclude_fname # <<>>
                 THEN SelectSeq(fnames, LAMBDA f : Basename(f) # Basename(exclude_fname))
                 ELSE fnames
    /\ local_pc' = IF local_variant = S_fetch_and_publish THEN "limit" ELSE "returned"
    /\ UNCHANGED <<local_variant, results_dir, exclude_fname, max_results>>
    /\ UNCHANGED <<report_vars, fetch_vars, select_vars, extract_vars>>

\* the cap of fetch-and-publish.py, then return fnames
LimitResults ==
    /\ local_pc = "limit"
    /\ fnames' = LimitTo(fnames, max_results)
    /\ local_pc' = "returned"
    /\ UNCHANGED <<local_variant, results_dir, exclude_fname, max_results>>
    /\ UNCHANGED <<report_vars, fetch_vars, select_vars, extract_vars>>

NextLocal ==
    \/ GlobResults
    \/ ExcludeCurrent
    \/ LimitResults

S_results_1_json == <<"r", "e", "s", "u", "l", "t", "s", "-", "1", ".", "j", "s", "o", "n">>
S_results_10_json_xz == <<"r", "e", "s", "u", "l", "t", "s", "-", "1", "0", ".", "j", "s", "o", "n", ".", "x", "z">>
S_results_2_json_bak == <<"r", "e", "s", "u", "l", "t", "s", "-", "2", ".", "j", "s", "o", "n", ".", "b", "a", "k">>
S_results_json_xz == <<"r", "e", "s", "u", "l", "t", "s", ".", "j", "s", "o", "n", ".", "x", "z">>
S_out_results_2_json_xz == <<"o", "u", "t", "/", "r", "e", "s", "u", "l", "t", "s", "-", "2", ".", "j", "s", "o", "n", ".", "x", "z">>

\* the base names a results directory can hold
DirNames ==
    {S_results_1_json, S_results_1_json_xz, S_results_2_json_xz, S_results_10_json_xz,
     S_results_2_json_bak, S_results_json_xz}

\* the paths of the current run's file: none, a file of another directory, a bare name
ExcludeFnames == {NoneValue, S_out_results_2_json_xz, S_results_1_json}

\* the report and the download do not run
ReportIdle ==
    /\ test_results_fname_list = <<>>
    /\ ignore_tests = {}
    /\ compare_weekday_num = NoWeekday
    /\ top_packages = 0
    /\ pc = "off"
    /\ raised = ""
    /\ test_results_list = <<>>
    /\ wheel_name_set = {}
    /\ all_test_names = <<>>
    /\ wheel_ranks = <<>>
    /\ reference_date = NoDate
    /\ reference_test_file = NoRef
    /\ leading_zeros = 0
    /\ summary_rows = <<>>
    /\ wheels = <<>>

FetchIdle ==
    /\ fetch_results = <<>>
    /\ previous_result = 0
    /\ result_fnames = <<>>
    /\ fetch_pc = "off"

InitLocal ==
    /\ local_variant \in {S_fetch_and_publish, S_generate_website}
    /\ results_dir \in {d \in SUBSET DirNames : Cardinality(d) <= MaxDirFiles}
    /\ exclude_fname \in ExcludeFnames
    /\ max_results \in IF local_variant = S_fetch_and_publish THEN 0..MaxResults ELSE {0}
    /\ fnames = <<>>
    /\ local_pc = "glob"
    /\ ReportIdle
    /\ FetchIdle
    /\ SelectIdle
    /\ ExtractIdle

SpecLocal == InitLocal /\ [][NextLocal]_vars

----------------------------------------------------------------------------
(* extract-tool/extract_results.py: main, process_commit, save_results; and the parsing of
   a result file's name in print_table_by_distro_report *)

\* most commits of the commit list
MaxCommits == 2

Digits == <<"0", "1", "2", "3", "4", "5", "6", "7", "8", "9">>

\* "%02d" % n
TwoDigits(n) == <<Digits[(n \div 10) + 1], Digits[(n % 10) + 1]>>

\* git's --date=format:%Y-%m-%d %H:%M:%S of an author date; day 0 is Monday 2024-01-01 and the
\* days of the model lie in January 2024
GitDate(d) ==
    <<"2", "0", "2", "4", "-", "0", "1", "-">> \o TwoDigits(d.day + 1) \o <<" ">>
    \o TwoDigits(d.hour) \o <<":">> \o TwoDigits(d.minute) \o <<":">> \o TwoDigits(d.second)

\* str.replace(old, new) for one-character old and new
Replace(s, old, new) == [i \in DOMAIN s |-> IF s[i] = old THEN new ELSE s[i]]

S_results_slash == <<"r", "e", "s", "u", "l", "t", "s", "/">>

\* the timestamp that keeps the colons of the commit datetime
TimestampKeepingColons(commit_datetime) == Replace(commit_datetime, " ", "_")

\* commit_datetime.replace(' ', '_').replace(':', '-')
TimestampOf(commit_datetime) == Replace(Replace(commit_datetime, " ", "_"), ":", "-")

\* os.path.join(output_dir, f"results-{timestamp}.json") with the default output_dir 'results'
SavedFname(commit_datetime) ==
    S_results_slash \o S_results_dash \o TimestampOf(commit_datetime) \o S_dot_json

\* the characters of the class [0-9\-_]
TimestampChars == {Digits[i] : i \in DOMAIN Digits} \cup {"-", "_"}

\* the length of the longest run of [0-9\-_] that starts at position i of s
RECURSIVE RunLength(_, _)
RunLength(s, i) ==
    IF i > Len(s) \/ s[i] \notin TimestampChars THEN 0 ELSE 1 + RunLength(s, i + 1)

\* the group of re.search(r'[^/]-([0-9\-_]+)\.json(?:\.xz)?$', fname) for a match that starts
\* at position i, or NoneValue: the class holds no '.', so the group is the whole run
GroupAt(fname, i) ==
    IF i + 1 <= Len(fname) /\ fname[i] # "/" /\ fname[i + 1] = "-"
    THEN LET n == RunLength(fname, i + 2)
             rest == SubSeq(fname, i + 2 + n, Len(fname))
         IN  IF n >= 1 /\ rest \in {S_dot_json, S_dot_json_xz}
             THEN SubSeq(fname, i + 2, i + 1 + n)
             ELSE NoneValue
    ELSE NoneValue

\* mo.group(1) of the leftmost match, NoneValue when mo is None
SearchTimestamp(fname) ==
    LET starts == {i \in DOMAIN fname : GroupAt(fname, i) # NoneValue}
    IN  IF starts = {} THEN NoneValue
        ELSE GroupAt(fname, CHOOSE i \in starts : \A j \in starts : i <= j)

\* int() of a string of digits
RECURSIVE ParseInt(_)
ParseInt(s) ==
    IF s = <<>> THEN 0
    ELSE ParseInt(SubSeq(s, 1, Len(s) - 1)) * 10 + (CodePoint(s[Len(s)]) - CodePoint("0"))

IsDigits(s) == \A i \in DOMAIN s : s[i] \in {Digits[j] : j \in DOMAIN Digits}

\* datetime.strptime(s, "%Y-%m-%d_%H-%M-%S") for fields of full width; Malformed stands for
\* ValueError. The day of the result counts the dates from 2024-01-01 in calendar order
\* (exactly the days since then within January 2024).
Strptime(s) ==
    IF /\ Len(s) = 19
       /\ s[5] = "-" /\ s[8] = "-" /\ s[11] = "_" /\ s[14] = "-" /\ s[17] = "-"
       /\ IsDigits(SubSeq(s, 1, 4)) /\ IsDigits(SubSeq(s, 6, 7)) /\ IsDigits(SubSeq(s, 9, 10))
       /\ IsDigits(SubSeq(s, 12, 13)) /\ IsDigits(SubSeq(s, 15, 16))
       /\ IsDigits(SubSeq(s, 18, 19))
    THEN LET year == ParseInt(SubSeq(s, 1, 4))
             month == ParseInt(SubSeq(s, 6, 7))
             dom == ParseInt(SubSeq(s, 9, 10))
             h == ParseInt(SubSeq(s, 12, 13))
             m == ParseInt(SubSeq(s, 15, 16))
             sec == ParseInt(SubSeq(s, 18, 19))
         IN  IF /\ year >= 1 /\ month \in 1..12 /\ dom \in 1..31
                /\ h \in 0..23 /\ m \in 0..59 /\ sec \in 0..61
             THEN [day |-> (year - 2024) * 372 + (month - 1) * 31 + (dom - 1),
                   hour |-> h, minute |-> m, second |-> sec]
             ELSE Malformed
    ELSE Malformed

\* lines 245-247 of generate-report.py: the date of a result file, from its name
DateOfFname(fname) ==
    LET group == SearchTimestamp(fname)
    IN  IF group = NoneValue THEN NoDate ELSE Strptime(group)

\* process_commit's second result for a commit whose page could not be read or parsed
NoResults == [ok |-> FALSE, page |-> ""]

\* d[key] = value on a dict kept as the sequence of its items in insertion order
DictSet(d, key, value) ==
    IF \E i \in DOMAIN d : d[i].key = key
    THEN [i \in DOMAIN d |-> IF d[i].key = key THEN [key |-> key, value |-> value] ELSE d[i]]
    ELSE Append(d, [key |-> key, value |-> value])

\* the body of the loop over pool.imap_unordered: the result of any commit still in work
\* arrives; process_commit gives None for a commit that failed
YieldResult ==
    /\ extract_pc = "pool"
    /\ \E i \in pending :
           /\ pending' = pending \ {i}
           /\ executions' = IF commits[i].outcome.ok
                            THEN DictSet(executions, commits[i].datetime,
                                         commits[i].outcome.page)
                            ELSE executions
    /\ UNCHANGED <<commits, saved, extract_pc>>
    /\ UNCHANGED <<report_vars, fetch_vars, select_vars, local_vars>>

\* the files written by the loop of save_results over the first n items
RECURSIVE WrittenFiles(_, _)
WrittenFiles(d, n) ==
    IF n = 0 THEN <<>>
    ELSE (SavedFname(d[n].key) :> d[n].value) @@ WrittenFiles(d, n - 1)

\* save_results(results, args.output_dir), once the pool is exhausted
SaveResults ==
    /\ extract_pc = "pool"
    /\ pending = {}
    /\ saved' = WrittenFiles(executions, Len(executions))
    /\ extract_pc' = "saved"
    /\ UNCHANGED <<commits, pending, executions>>
    /\ UNCHANGED <<report_vars, fetch_vars, select_vars, local_vars>>

NextExtract ==
    \/ YieldResult
    \/ SaveResults

\* the author dates of the commits
CommitDates ==
    {Morning(FirstDay), LateEvening(FirstDay), Morning(LastDay),
     [day |-> FirstDay, hour |-> 0, minute |-> 30, second |-> 10],
     [day |-> FirstDay, hour |-> 10, minute |-> 30, second |-> 0]}

\* what process_commit makes of a commit: no results, or the results of one of two pages
CommitOutcomes ==
    {NoResults, [ok |-> TRUE, page |-> "page 1"], [ok |-> TRUE, page |-> "page 2"]}

\* the commit lists of get_commit_list: commit i has the hash i
CommitLists ==
    UNION {[1..n -> [datetime : {GitDate(d) : d \in CommitDates}, outcome : CommitOutcomes]] :
           n \in 1..MaxCommits}

InitExtract ==
    /\ commits \in {[i \in DOMAIN l |-> [hash |-> i, datetime |-> l[i].datetime,
                                         outcome |-> l[i].outcome]] : l \in CommitLists}
    /\ pending = DOMAIN commits
    /\ executions = <<>>
    /\ saved = <<>>
    /\ extract_pc = "pool"
    /\ ReportIdle
    /\ FetchIdle
    /\ SelectIdle
    /\ LocalIdle

SpecExtract == InitExtract /\ [][NextExtract]_vars

----------------------------------------------------------------------------
(* fetch_previous_results of test/generate-website.py: the selection of the artifacts *)

\* most values of days_ago_list
MaxRequested == 2
\* greatest number of days ago that is asked for
MaxDaysAgo == 2
\* most artifacts in the answer of the API
MaxListed == 3

\* datetime.utcnow(), in days since the oldest artifact of the model was created
Now == MaxDaysAgo + 1

\* sorted(days_ago_list, reverse=True)
SortedDaysDescending(list) == StableSort(list, [i \in DOMAIN list |-> 0 - list[i]])

\* sorted(artifacts, reverse=True, key=created_at)
SortedByCreatedAt(list) == StableSort(list, [i \in DOMAIN list |-> 0 - list[i].created_at])

\* the test that also takes an artifact created exactly days_ago days before now
CreatedNotAfter(created_at, days_ago) == Now - days_ago >= created_at

\* now - timedelta(days=days_ago) > created_at
CreatedBefore(created_at, days_ago) == Now - days_ago > created_at

\* lines 94-95 and 124-127: nothing is asked for and [] is returned, or the two lists are
\* sorted for the loop
SortForSelection ==
    /\ select_pc = "start"
    /\ IF Len(days_ago_arg) = 0
       THEN /\ select_pc' = "returned"
            /\ UNCHANGED <<days_ago_list, artifacts>>
       ELSE /\ days_ago_list' = SortedDaysDescending(days_ago_arg)
            /\ artifacts' = SortedByCreatedAt(response_artifacts)
            /\ select_pc' = "loop"
    /\ UNCHANGED <<days_ago_arg, response_artifacts, artifact_pos, selected>>
    /\ UNCHANGED <<report_vars, fetch_vars, local_vars, extract_vars>>

\* lines 128-134: one pass of the loop over the artifacts
SelectArtifact ==
    /\ select_pc = "loop"
    /\ artifact_pos < Len(artifacts)
    /\ Len(days_ago_list) # 0
    /\ LET artifact == artifacts[artifact_pos + 1]
       IN  IF CreatedBefore(artifact.created_at, days_ago_list[Len(days_ago_list)])
           THEN /\ selected' = Append(selected, artifact)
                /\ days_ago_list' = SubSeq(days_ago_list, 1, Len(days_ago_list) - 1)
           ELSE UNCHANGED <<selected, days_ago_list>>
    /\ artifact_pos' = artifact_pos + 1
    /\ UNCHANGED <<days_ago_arg, response_artifacts, artifacts, select_pc>>
    /\ UNCHANGED <<report_vars, fetch_vars, local_vars, extract_vars>>

\* the loop ends: the artifacts are exhausted, or line 129 breaks
EndSelection ==
    /\ select_pc = "loop"
    /\ artifact_pos = Len(artifacts) \/ Len(days_ago_list) = 0
    /\ select_pc' = "selected"
    /\ UNCHANGED <<days_ago_arg, response_artifacts, days_ago_list, artifacts, artifact_pos,
                   selected>>
    /\ UNCHANGED <<report_vars, fetch_vars, local_vars, extract_vars>>

NextSelect ==
    \/ SortForSelection
    \/ SelectArtifact
    \/ EndSelection

\* the artifacts of the answer: the artifact at position i is named by i
ListedArtifacts ==
    UNION {{[i \in 1..n |-> [id |-> i, created_at |-> t[i]]] : t \in [1..n -> 0..Now]} :
           n \in 0..MaxListed}

InitSelect ==
    /\ days_ago_arg \in UNION {[1..n -> 0..MaxDaysAgo] : n \in 0..MaxRequested}
    /\ response_artifacts \in ListedArtifacts
    /\ days_ago_list = <<>>
    /\ artifacts = <<>>
    /\ artifact_pos = 0
    /\ selected = <<>>
    /\ select_pc = "start"
    /\ ReportIdle
    /\ FetchIdle
    /\ LocalIdle
    /\ ExtractIdle

SpecSelect == InitSelect /\ [][NextSelect]_vars

----------------------------------------------------------------------------
(* Properties *)

\* the series is sorted
AfterSort ==
    pc \in {"names", "ranks", "summary", "wheels", "render", "done", "written", "not_written"}

\* the summary block has run
AfterSummary == pc \in {"wheels", "render", "done", "written", "not_written"}

\* the timestamps of the input files are there and pairwise distinct
DistinctTimestamps ==
    \A i, j \in DOMAIN test_results_fname_list :
        /\ test_results_fname_list[i].fname.stamp # NoDate
        /\ i # j => test_results_fname_list[i].fname.stamp # test_results_fname_list[j].fname.stamp

\* C1: once the loaded snapshots are sorted, input files with pairwise distinct timestamps,
\* given in any order, make a series that holds exactly the input files, in strictly
\* descending timestamp order, and no input file is more recent than series[0].
C1_SeriesStrictlyDescending ==
    (AfterSort /\ DistinctTimestamps) =>
        /\ {test_results_list[i].fname : i \in DOMAIN test_results_list}
               = {test_results_fname_list[i].fname : i \in DOMAIN test_results_fname_list}
        /\ Len(test_results_list) = Len(test_results_fname_list)
        /\ \A i, j \in DOMAIN test_results_list :
               i < j => DateLT(test_results_list[j].date, test_results_list[i].date)
        /\ \A i \in DOMAIN test_results_fname_list :
               ~DateLT(test_results_list[1].date, test_results_fname_list[i].fname.stamp)

\* three files with distinct timestamps given oldest first, sorted
C1_Witness ==
    /\ pc = "names"
    /\ DistinctTimestamps
    /\ Len(test_results_fname_list) = 3
    /\ DateLT(test_results_fname_list[1].fname.stamp, test_results_fname_list[2].fname.stamp)
    /\ DateLT(test_results_fname_list[2].fname.stamp, test_results_fname_list[3].fname.stamp)
    /\ test_results_list[1].fname.id = 3

\* the package names of the series
AllWheelNames == UNION {DOMAIN test_results_list[i].content : i \in DOMAIN test_results_list}

\* the keys date_of_last_passing is asked about: the test names and the special key
AllLookupKeys ==
    UNION {TestNamesOf(test_results_list[i].content) : i \in DOMAIN test_results_list}
        \cup {S_each_distribution_has_passing_option}

\* snapshot i of the series has the package and the test, and the test passed (for the
\* special key: has the package, and its derived flag is true)
PassesAt(i, wheel, key) ==
    LET tf == test_results_list[i]
    IN  IF key = S_each_distribution_has_passing_option
        THEN wheel \in DOMAIN tf.wheels /\ tf.wheels[wheel].each_distribution_has_passing_option
        ELSE /\ wheel \in DOMAIN tf.content
             /\ key \in DOMAIN tf.content[wheel]
             /\ tf.content[wheel][key].test_passed

\* C2: date_of_last_passing never answers with the current snapshot: for every package and
\* key a non-empty answer is the date of a snapshot at position 2 or later of the series
\* (index >= 1 in the source) that passes, and when only the current snapshot passes
\* the answer is empty.
C2_NeverTheCurrentSnapshot ==
    AfterSort =>
        \A wheel \in AllWheelNames : \A key \in AllLookupKeys :
            LET answer == date_of_last_passing(wheel, key)
            IN  /\ answer # EmptyString =>
                       \E i \in 2..Len(test_results_list) :
                           PassesAt(i, wheel, key) /\ answer = LastPassedOn(test_results_list[i].date)
                /\ (\A i \in 2..Len(test_results_list) : ~PassesAt(i, wheel, key)) =>
                       answer = EmptyString

\* the report of a run in which the current snapshot passes its test after a timeout, so
\* that the lookup is made for a passing test, and no older snapshot passes it
C2_Witness ==
    /\ pc = "done"
    /\ Len(test_results_list) >= 2
    /\ S_pkgA \in DOMAIN test_results_list[1].content
    /\ S_focal \in DOMAIN test_results_list[1].content[S_pkgA]
    /\ test_results_list[1].content[S_pkgA][S_focal].test_passed
    /\ \E r \in DOMAIN wheels :
           /\ wheels[r].name = S_pkgA
           /\ S_focal \in DOMAIN wheels[r].last_passing
           /\ wheels[r].last_passing[S_focal] = EmptyString

\* C3: date_of_last_passing(package, key) is the date of the first snapshot after the
\* current one in which the package and the test are present and the test passed (for
\* the special key: the derived flag of the package is true); snapshots without the
\* package or the test are skipped; with no such snapshot the answer is empty.
C3_FirstOlderPassingSnapshot ==
    AfterSort =>
        \A wheel \in AllWheelNames : \A key \in AllLookupKeys :
            LET passing == {i \in 2..Len(test_results_list) : PassesAt(i, wheel, key)}
            IN  date_of_last_passing(wheel, key) =
                    IF passing = {} THEN EmptyString
                    ELSE LastPassedOn(test_results_list[
                             CHOOSE i \in passing : \A j \in passing : i <= j].date)

\* the report of a run whose current snapshot fails the test, whose next snapshot lacks
\* the package and whose oldest snapshot passes
C3_Witness ==
    /\ pc = "done"
    /\ Len(test_results_list) = 3
    /\ S_pkgA \notin DOMAIN test_results_list[2].content
    /\ PassesAt(3, S_pkgA, S_focal)
    /\ \E r \in DOMAIN wheels :
           /\ wheels[r].name = S_pkgA
           /\ S_focal \in DOMAIN wheels[r].last_passing
           /\ wheels[r].last_passing[S_focal] = LastPassedOn(test_results_list[3].date)
           /\ wheels[r].distro_last_passing = LastPassedOn(test_results_list[3].date)

\* C4: in every snapshot, the flag each-distribution-has-passing-option of a package is
\* true exactly when no key of its passed-by-distribution map has the value false; the
\* key of the unrecognised distributions counts like any other, and a package without
\* tests has the flag true.
C4_FlagIffNoFalseDistribution ==
    \A f \in DOMAIN test_results_list :
        \A wheel \in DOMAIN test_results_list[f].wheels :
            LET derived == test_results_list[f].wheels[wheel]
            IN  /\ derived.each_distribution_has_passing_option
                       <=> (\A d \in DOMAIN derived.passed_by_distribution :
                                derived.passed_by_distribution[d])
                /\ DOMAIN test_results_list[f].content[wheel] = {} =>
                       derived.each_distribution_has_passing_option

\* a package that passes on every recognised distribution and fails only a test of an
\* unrecognised one: its flag is false
C4_Witness ==
    /\ pc = "done"
    /\ LET derived == test_results_list[1].wheels[S_pkgA]
       IN  /\ S_pkgA \in DOMAIN test_results_list[1].wheels
           /\ DOMAIN derived.passed_by_distribution = {S_focal, S_amazon_linux2, NoneValue}
           /\ derived.passed_by_distribution[S_focal]
           /\ derived.passed_by_distribution[S_amazon_linux2]
           /\ ~derived.passed_by_distribution[NoneValue]
           /\ ~derived.each_distribution_has_passing_option

\* string d occurs in string s
Occurs(d, s) ==
    \E k \in 0..Len(s) :
        /\ k + Len(d) <= Len(s)
        /\ \A j \in 1..Len(d) : s[k + j] = d[j]

\* the first entry of the distribution list that occurs in test_name, or None
FirstListedDistribution(test_name) ==
    LET matching == {i \in DOMAIN distros : Occurs(distros[i], test_name)}
    IN  IF matching = {} THEN NoneValue
        ELSE distros[CHOOSE i \in matching : \A j \in matching : i <= j]

\* C5: for every package and every distribution d (None included), the
\* passed-by-distribution map is true at d exactly when some test of the package whose
\* distribution is d passed, and has the key d exactly when the package has a test of
\* distribution d, whatever the order in which the tests were iterated.
C5_PassedByDistributionIsOr ==
    \A f \in DOMAIN test_results_list :
        \A wheel \in DOMAIN test_results_list[f].wheels :
            LET by_distro == test_results_list[f].wheels[wheel].passed_by_distribution
                tests == test_results_list[f].content[wheel]
            IN  \A d \in {distros[i] : i \in DOMAIN distros} \cup {NoneValue} :
                    /\ d \in DOMAIN by_distro
                           <=> (\E t \in DOMAIN tests : FirstListedDistribution(t) = d)
                    /\ (d \in DOMAIN by_distro /\ by_distro[d])
                           <=> (\E t \in DOMAIN tests :
                                    FirstListedDistribution(t) = d /\ tests[t].test_passed)

\* a package whose focal test passed and whose focal-apt test failed: focal is true
C5_Witness ==
    /\ pc = "done"
    /\ S_pkgA \in DOMAIN test_results_list[1].content
    /\ {S_focal, S_focal_apt} \subseteq DOMAIN test_results_list[1].content[S_pkgA]
    /\ test_results_list[1].content[S_pkgA][S_focal].test_passed
    /\ ~test_results_list[1].content[S_pkgA][S_focal_apt].test_passed
    /\ test_results_list[1].wheels[S_pkgA].passed_by_distribution[S_focal]

\* C6: the distribution that metadata inference writes to a test is the first entry, in
\* list order, of the distribution list that occurs in the test name, and None when no
\* entry occurs.
C6_FirstListedDistribution ==
    \A f \in DOMAIN test_results_list :
        \A wheel \in DOMAIN test_results_list[f].content :
            \A t \in DOMAIN test_results_list[f].content[wheel] :
                test_results_list[f].content[wheel][t].distribution = FirstListedDistribution(t)

\* a loaded test whose name holds noble and then focal: its distribution is focal, the
\* earlier entry of the list
C6_Witness ==
    /\ pc = "done"
    /\ S_noble \o <<"-">> \o S_focal \in DOMAIN test_results_list[1].content[S_pkgA]
    /\ test_results_list[1].content[S_pkgA][S_noble \o <<"-">> \o S_focal].distribution = S_focal

\* C7: a test named for amazon-linux2023 has the distribution amazon-linux2023, which is
\* not the distribution of a test named amazon-linux2.
C7_AmazonLinux2023IsADistribution ==
    \A f \in DOMAIN test_results_list :
        \A wheel \in DOMAIN test_results_list[f].content :
            \A t \in DOMAIN test_results_list[f].content[wheel] :
                Occurs(S_amazon_linux2023, t) =>
                    /\ test_results_list[f].content[wheel][t].distribution = S_amazon_linux2023
                    /\ test_results_list[f].content[wheel][t].distribution
                           # get_distribution_name(S_amazon_linux2)

\* the day of weekday a in the week (Monday to Sunday) of day d
DayOfWeekOf(d, a) ==
    CHOOSE x \in (d - 6)..(d + 6) : x \div 7 = d \div 7 /\ x % 7 = a

\* C8: for an anchor weekday a in 0..6 the reference date has the time 23:59, and its day
\* is weekday a of the current snapshot's week (Monday = 0), exactly 7 days earlier if
\* and only if the current snapshot's weekday is <= a.
C8_ReferenceDate ==
    (AfterSummary /\ compare_weekday_num # NoWeekday /\ compare_weekday_num[1] \in 0..6) =>
        LET a == compare_weekday_num[1]
            current == test_results_list[1].date
        IN  /\ reference_date.hour = 23
            /\ reference_date.minute = 59
            /\ current.day % 7 <= a => reference_date.day = DayOfWeekOf(current.day, a) - 7
            /\ current.day % 7 > a => reference_date.day = DayOfWeekOf(current.day, a)

\* a run whose current snapshot falls on the anchor weekday: the reference date is the
\* same weekday one week before
C8_Witness ==
    /\ pc = "done"
    /\ compare_weekday_num = <<3>>
    /\ test_results_list[1].date.day % 7 = 3
    /\ reference_date.day = test_results_list[1].date.day - 7

\* the positions of the series whose snapshot is strictly before the reference date
BeforeReference == {i \in DOMAIN test_results_list :
                        Timestamp(test_results_list[i].date) < Timestamp(reference_date)}

\* C9: the reference snapshot is the first snapshot of the descending series, hence the
\* most recent one, whose timestamp is strictly less than the reference date; when there
\* is none, every summary row has the single value of the current snapshot, every row
\* but the date row has the delta 'N/A', and the run goes on without an exception.
C9_ReferenceSnapshot ==
    /\ summary_rows # <<>> => (pc # "error" /\ raised = "")
    /\ (AfterSummary /\ compare_weekday_num # NoWeekday) =>
        /\ BeforeReference # {} =>
               /\ reference_test_file \in BeforeReference
               /\ \A i \in BeforeReference :
                      /\ reference_test_file <= i
                      /\ Timestamp(test_results_list[i].date)
                             <= Timestamp(test_results_list[reference_test_file].date)
        /\ BeforeReference = {} =>
               /\ reference_test_file = NoRef
               /\ Len(summary_rows) = Len(labels)
               /\ \A r \in DOMAIN summary_rows :
                      /\ Len(summary_rows[r].values) = 1
                      /\ summary_rows[r].label # "date" => summary_rows[r].diff = S_not_available
               /\ summary_rows[1].values[1] = StrfDate(test_results_list[1].date)

\* a finished run with an older snapshot late in the evening of the reference day, at
\* the reference date itself: it is not before it, and no reference is found
C9_Witness ==
    /\ pc = "done"
    /\ Len(test_results_list) >= 2
    /\ reference_test_file = NoRef
    /\ \E i \in DOMAIN test_results_list : test_results_list[i].date = reference_date
    /\ summary_rows[2].diff = S_not_available

\* the number a rendered delta stands for: the digits after the sign, negated after '-'
RECURSIVE DigitsValue(_)
DigitsValue(digits) ==
    IF digits = <<>> THEN 0
    ELSE 10 * DigitsValue(SubSeq(digits, 1, Len(digits) - 1))
         + (CHOOSE n \in 0..9 : Alphabet[CodePoint("0") + n] = digits[Len(digits)])

\* the four metrics of a snapshot, in the order of the summary rows: packages, packages
\* with every test passed, packages with a failed test, packages whose every
\* distribution has a passing option
MetricsOf(tf) ==
    <<Cardinality(DOMAIN tf.content),
      Cardinality({w \in DOMAIN tf.content :
                       \A t \in DOMAIN tf.content[w] : tf.content[w][t].test_passed}),
      Cardinality({w \in DOMAIN tf.content :
                       \E t \in DOMAIN tf.content[w] : ~tf.content[w][t].test_passed}),
      Cardinality({w \in DOMAIN tf.wheels :
                       \A d \in DOMAIN tf.wheels[w].passed_by_distribution :
                           tf.wheels[w].passed_by_distribution[d]})>>

\* C10: with a reference snapshot, the delta of each of the four metrics is the value of
\* the current snapshot minus the value of the reference snapshot, written with its
\* sign: '+' and the digits for a difference >= 0, '-' and the digits for a negative one.
C10_SignedDeltas ==
    (AfterSummary /\ compare_weekday_num # NoWeekday /\ reference_test_file # NoRef) =>
        \A m \in 1..4 :
            LET row == summary_rows[m + 1]
                difference == MetricsOf(test_results_list[1])[m]
                                  - MetricsOf(test_results_list[reference_test_file])[m]
            IN  /\ row.values = <<MetricsOf(test_results_list[reference_test_file])[m],
                                  MetricsOf(test_results_list[1])[m]>>
                /\ row.diff[1] = (IF difference >= 0 THEN "+" ELSE "-")
                /\ Len(row.diff) >= 2
                /\ DigitsValue(Tail(row.diff)) =
                       (IF difference >= 0 THEN difference ELSE 0 - difference)

\* a finished run with one package fewer than a week before, two fewer that pass every
\* test and one more with a failed test
C10_Witness ==
    /\ pc = "done"
    /\ reference_test_file = 2
    /\ summary_rows[2].diff = <<"-", "1">>
    /\ summary_rows[3].diff = <<"-", "2">>
    /\ summary_rows[4].diff = <<"+", "1">>

\* a snapshot with the package `name` taken out of the parsed data and of the metadata
WithoutPackage(tf, name) ==
    [tf EXCEPT !.content = [w \in (DOMAIN tf.content) \ {name} |-> tf.content[w]],
               !.wheels = [w \in (DOMAIN tf.wheels) \ {name} |-> tf.wheels[w]]]

\* C11: with pkgB on the ignore list, the failing counts of the summary and the global
\* test-name list are those of the snapshots with pkgB removed.
C11_IgnoredPackageExcluded ==
    (pc = "done" /\ S_pkgB \in ignore_tests) =>
        LET files == FilesToSummarize(test_results_list, reference_test_file)
            stripped == [c \in DOMAIN files |-> WithoutPackage(files[c], S_pkgB)]
            rows == SummaryRows([c \in DOMAIN files |-> SummaryColumn(stripped[c])])
        IN  /\ summary_rows[4].values = rows[4].values
            /\ all_test_names =
                   SortedNames(UNION {TestNamesOf(WithoutPackage(test_results_list[i], S_pkgB).content) :
                                          i \in DOMAIN test_results_list})

\* the ranking step has run
AfterRanks == pc \notin {"load", "names", "ranks"}

\* the package records are built
AfterWheels == pc \in {"render", "done", "written", "not_written"}

\* C12: with an empty rank list the run raises nothing and every package has the rank
\* '~'; with a rank list of length L >= 1 the rank width is the number of decimal digits
\* of L.
C12_EmptyRankListGivesPlaceholders ==
    LET fetched == get_wheel_ranks(top_packages)
    IN  /\ (fetched.raised = "" /\ fetched.packages = <<>>) =>
               /\ pc # "error"
               /\ AfterWheels => \A i \in DOMAIN wheels : wheels[i].rank = <<"~">>
        /\ (AfterRanks /\ wheel_ranks # <<>>) =>
               /\ leading_zeros >= 1
               /\ 10 ^ (leading_zeros - 1) <= Len(wheel_ranks)
               /\ Len(wheel_ranks) < 10 ^ leading_zeros

\* the URL gave no usable list of rows
RankingFailed ==
    \/ top_packages.kind # "rows"
    \/ \E i \in DOMAIN top_packages.rows : ~(RowKeys \subseteq DOMAIN top_packages.rows[i])

\* C13: when the request fails or the response is malformed, get_wheel_ranks raises
\* nothing and returns the empty list.
C13_RankingFailureGivesEmptyList ==
    (AfterRanks /\ RankingFailed) =>
        /\ raised \notin {"AttributeError", "JSONDecodeError"}
        /\ wheel_ranks = <<>>

\* the download count the URL gave for a project
DownloadCountOf(project) ==
    LET i == CHOOSE i \in DOMAIN top_packages.rows : top_packages.rows[i].project = project
    IN  top_packages.rows[i].download_count

\* C14: the rank list is the projects by descending download count; the rank of a
\* package is the 1-based position of its exact name in that list, written in decimal
\* with leading zeros to the width of the length of the list, and '~' for a package that
\* is not in the list.
C14_RankIsPositionInRankList ==
    AfterWheels =>
        /\ {wheel_ranks[k] : k \in DOMAIN wheel_ranks}
               = {top_packages.rows[k].project : k \in DOMAIN top_packages.rows}
        /\ Len(wheel_ranks) = Len(top_packages.rows)
        /\ \A j, k \in DOMAIN wheel_ranks :
               j < k => DownloadCountOf(wheel_ranks[j]) >= DownloadCountOf(wheel_ranks[k])
        /\ \A i \in DOMAIN wheels :
               LET positions == {k \in DOMAIN wheel_ranks : wheel_ranks[k] = wheels[i].name}
               IN  IF positions = {} THEN wheels[i].rank = <<"~">>
                   ELSE /\ Len(wheels[i].rank) = Len(Decimal(Len(wheel_ranks)))
                        /\ DigitsValue(wheels[i].rank) \in positions
                        /\ \A k \in positions : DigitsValue(wheels[i].rank) <= k

\* a finished run with ten ranked projects: pkgA is the third and has the rank '03',
\* and PkgA, which is not in the list in that case, has the placeholder
C14_Witness ==
    /\ pc = "done"
    /\ Len(wheel_ranks) = 10
    /\ \E i, j \in DOMAIN wheels :
           /\ wheels[i].name = S_pkgA
           /\ wheels[i].rank = <<"0", "3">>
           /\ wheels[j].name = S_PkgA
           /\ wheels[j].rank = <<"~">>

\* the package names that occur in the payload of any input file
InputPackageNames ==
    UNION {DOMAIN test_results_fname_list[i].payload.data : i \in DOMAIN test_results_fname_list}

\* C15: the report has exactly one record for every package name that occurs in any
\* snapshot, current or older, and the records are in case-insensitive order of the names.
C15_OneRecordPerPackage ==
    AfterWheels =>
        /\ {wheels[i].name : i \in DOMAIN wheels} = InputPackageNames
        /\ Len(wheels) = Cardinality(InputPackageNames)
        /\ \A i, j \in DOMAIN wheels :
               i < j => ~StrLT(Lower(wheels[j].name), Lower(wheels[i].name))

\* a finished run over two snapshots: pkgB is in the older one only and has a record,
\* and so have pkgA and PkgA, which are equal in lower case
C15_Witness ==
    /\ pc = "done"
    /\ Len(test_results_list) = 2
    /\ S_pkgB \notin DOMAIN test_results_list[1].content
    /\ S_pkgB \in DOMAIN test_results_list[2].content
    /\ {wheels[i].name : i \in DOMAIN wheels} = {S_pkgA, S_PkgA, S_pkgB}
    /\ Len(wheels) = 3

\* the loaded snapshot of an input file
LoadedOf(file) ==
    test_results_list[CHOOSE i \in DOMAIN test_results_list :
                          test_results_list[i].fname = file.fname]

\* C16: the report does not depend on the order of the input files nor on the run: for
\* every order of the same files the sorted series is the one of this run, and for every
\* iteration order of the set of package names the order of the records is the one of
\* this run (the test-name list, the summary rows and the annotations are computed from
\* the series).
C16_SameReportForEveryInputOrder ==
    pc = "done" =>
        /\ \A p \in ListsOf({test_results_fname_list[i] : i \in DOMAIN test_results_fname_list}) :
               SortedByDate([i \in DOMAIN p |-> LoadedOf(p[i])]) = test_results_list
        /\ \A l \in ListsOf(WheelNames(test_results_list)) :
               [i \in DOMAIN l |-> WheelRecord(SortedLower(l)[i])] = wheels

\* the annotation of a test: the date of the first older snapshot of the series that
\* passes it, or the empty string
OlderPassing(wheel, key) == {i \in 2..Len(test_results_list) : PassesAt(i, wheel, key)}

ExpectedAnnotation(wheel, key) ==
    IF OlderPassing(wheel, key) = {} THEN EmptyString
    ELSE LastPassedOn(test_results_list[CHOOSE i \in OlderPassing(wheel, key) :
                                            \A j \in OlderPassing(wheel, key) : i <= j].date)

\* the test failed or timed out in the current snapshot
FailedOrTimedOut(wheel, t) ==
    LET outcome == test_results_list[1].content[wheel][t]
    IN  ~outcome.test_passed \/ outcome.timeout

\* C17 as claimed: the record of a package of the current snapshot has an annotation for
\* every test of the package that failed or timed out, and for no other test.
C17_AnnotationForEveryFailedTest ==
    AfterWheels =>
        \A r \in DOMAIN wheels :
            wheels[r].name \in DOMAIN test_results_list[1].content =>
                \A t \in DOMAIN test_results_list[1].content[wheels[r].name] :
                    t \in DOMAIN wheels[r].last_passing <=> FailedOrTimedOut(wheels[r].name, t)

\* C17 amended: the record of a package of the current snapshot has an annotation, the
\* historical lookup of the test, for every test of the package that failed or timed out
\* and is not on the ignore list, and for no other test; the record of a package that is
\* not in the current snapshot has no annotation.
C17_AnnotationForEveryListedFailedTest ==
    AfterWheels =>
        \A r \in DOMAIN wheels :
            LET wheel == wheels[r].name
            IN  IF wheel \in DOMAIN test_results_list[1].content
                THEN /\ DOMAIN wheels[r].last_passing
                            = {t \in DOMAIN test_results_list[1].content[wheel] :
                                   t \notin ignore_tests /\ FailedOrTimedOut(wheel, t)}
                     /\ \A t \in DOMAIN wheels[r].last_passing :
                            wheels[r].last_passing[t] = ExpectedAnnotation(wheel, t)
                ELSE DOMAIN wheels[r].last_passing = {}

\* a finished run whose current snapshot fails focal, which passed the day before, and
\* passes focal-apt after a timeout, which never passed before: both are annotated
C17_Witness ==
    /\ pc = "done"
    /\ ignore_tests = {}
    /\ Len(test_results_list) = 2
    /\ Len(wheels) = 1
    /\ wheels[1].name = S_pkgA
    /\ DOMAIN wheels[1].last_passing = {S_focal, S_focal_apt}
    /\ ~test_results_list[1].content[S_pkgA][S_focal].test_passed
    /\ wheels[1].last_passing[S_focal] = LastPassedOn(Morning(FirstDay))
    /\ test_results_list[1].content[S_pkgA][S_focal_apt].timeout
    /\ wheels[1].last_passing[S_focal_apt] = EmptyString

\* C18: a result file whose name has no timestamp of the form YYYY-MM-DD_HH-MM-SS fails
\* when it is loaded, before anything uses it: the series never holds a snapshot without
\* a timestamp.
C18_NoTimestampFailsAtLoad ==
    \A i \in DOMAIN test_results_list : test_results_list[i].date # NoDate

\* input file i cannot be loaded: unreadable or corrupt, or without a timestamp in its name
BadFile(i) ==
    \/ ~test_results_fname_list[i].payload.ok
    \/ test_results_fname_list[i].fname.stamp \in {NoDate, Malformed}

\* print_table_by_distro_report has returned the report
Returned == pc \in {"done", "written", "not_written"}

\* C19: when one of the input files cannot be loaded, the run never returns a report and
\* never writes index.html: it goes on only to end with an exception; a report that is
\* returned is made of every input file.
C19_NoReportFromFewerFiles ==
    /\ (\E i \in DOMAIN test_results_fname_list : BadFile(i)) =>
           /\ ~Returned
           /\ pc = "error" => raised # ""
           /\ pc # "error" => ENABLED Next
    /\ Returned =>
           {test_results_list[i].fname : i \in DOMAIN test_results_list}
               = {test_results_fname_list[i].fname : i \in DOMAIN test_results_fname_list}

\* a run that has loaded its first file, found the second one corrupt and ended with the
\* exception, before any report was made
C19_Witness ==
    /\ pc = "error"
    /\ raised = "JSONDecodeError"
    /\ Len(test_results_list) = 1
    /\ Len(test_results_fname_list) >= 2
    /\ ~BadFile(1)
    /\ wheels = <<>>

\* the download of the artifact failed or gave no zip archive
FetchFailed(artifact) == artifact.download # "ok" \/ ~artifact.is_zip

\* the artifact is an archive with a .xz member that extracts
HasResultFile(artifact) ==
    /\ ~FetchFailed(artifact)
    /\ \E k \in DOMAIN artifact.members :
           IsXzName(artifact.members[k].fname) /\ artifact.members[k].extracts

\* C20: a failed download (exception or status other than 200) or a bad zip archive
\* skips that artifact only: fetch_previous_results never raises, every artifact is
\* handled, a failed artifact adds no file, and the file of every other artifact that
\* has one is returned, in the order of the artifacts.
C20_FailedArtifactIsSkipped ==
    /\ fetch_pc # "error"
    /\ fetch_pc = "returned" =>
           /\ previous_result = Len(fetch_results)
           /\ \E pos \in [{a \in DOMAIN fetch_results : HasResultFile(fetch_results[a])}
                              -> DOMAIN result_fnames] :
                  /\ \A a, b \in DOMAIN pos : a < b => pos[a] < pos[b]
                  /\ {pos[a] : a \in DOMAIN pos} = DOMAIN result_fnames
                  /\ \A a \in DOMAIN pos :
                         \E k \in DOMAIN fetch_results[a].members :
                             /\ fetch_results[a].members[k].fname = result_fnames[pos[a]]
                             /\ IsXzName(fetch_results[a].members[k].fname)
                             /\ fetch_results[a].members[k].extracts

\* the function has returned one file after two artifacts: the first one was no zip
\* archive, the second one gave its result file
C20_Witness ==
    /\ fetch_pc = "returned"
    /\ Len(fetch_results) = 2
    /\ fetch_results[1].download = "ok"
    /\ ~fetch_results[1].is_zip
    /\ HasResultFile(fetch_results[2])
    /\ result_fnames = <<S_results_1_json_xz>>

----------------------------------------------------------------------------
(* fetch_local_results *)

\* the matching names of the directory that are not the current run's file
Remaining ==
    {name \in results_dir :
        /\ Matches(local_variant, name)
        /\ exclude_fname # <<>> => name # Basename(exclude_fname)}

\* C21: fetch_local_results returns matching names of the directory in descending name order,
\* never the name of the current run's file; without max_results it returns all the other
\* matching names, with max_results at most max_results names, and then the greatest of them
C21_LocalResultsNewestFirstWithoutCurrent ==
    local_pc = "returned" =>
        /\ \A i \in DOMAIN fnames : fnames[i] \in Remaining
        /\ \A i, j \in DOMAIN fnames : i < j => StrLT(fnames[j], fnames[i])
        /\ local_variant = S_generate_website =>
               {fnames[i] : i \in DOMAIN fnames} = Remaining
        /\ local_variant = S_fetch_and_publish =>
               /\ Len(fnames) <= max_results
               /\ Len(fnames) = max_results \/ {fnames[i] : i \in DOMAIN fnames} = Remaining
               /\ \A name \in Remaining :
                      name \in {fnames[i] : i \in DOMAIN fnames}
                      \/ \A i \in DOMAIN fnames : StrLT(name, fnames[i])

\* the cap drops the smallest names while the current run's file, which is in the directory,
\* is left out
C21_Witness ==
    /\ local_pc = "returned"
    /\ local_variant = S_fetch_and_publish
    /\ exclude_fname # <<>>
    /\ Basename(exclude_fname) \in results_dir
    /\ Len(fnames) = 2
    /\ Cardinality(Remaining) > 2

----------------------------------------------------------------------------
(* extract-tool *)

\* the commits that process_commit turned into results
Succeeded == {i \in DOMAIN commits : commits[i].outcome.ok}

\* C22: after the parallel extraction the saved files are in one-to-one correspondence with
\* the commits that were processed successfully: as many files as such commits, each such
\* commit's results in its own file and in results['executions'], whatever the order of
\* completion, and nothing saved for a commit that failed
C22_OneFilePerSucceededCommit ==
    extract_pc = "saved" =>
        /\ Cardinality(DOMAIN saved) = Cardinality(Succeeded)
        /\ Len(executions) = Cardinality(Succeeded)
        /\ \A i \in Succeeded :
               /\ SavedFname(commits[i].datetime) \in DOMAIN saved
               /\ saved[SavedFname(commits[i].datetime)] = commits[i].outcome.page
        /\ \A f \in DOMAIN saved :
               \E i \in Succeeded : f = SavedFname(commits[i].datetime)

\* the author dates of the commits that were processed successfully
SucceededDates ==
    {d \in CommitDates : \E i \in Succeeded : commits[i].datetime = GitDate(d)}

\* C23: the name of every file that save_results writes is matched by the report generator's
\* pattern and parsed back to the date and time of the commit, and the names written for
\* different commit datetimes are parsed to different timestamps
C23_SavedNameParsesBackToCommitDate ==
    extract_pc = "saved" =>
        /\ \A d \in SucceededDates :
               /\ SavedFname(GitDate(d)) \in DOMAIN saved
               /\ DateOfFname(SavedFname(GitDate(d))) = d
        /\ \A f, g \in DOMAIN saved : f # g => DateOfFname(f) # DateOfFname(g)

\* two files were written for commits of the same day
C23_Witness ==
    /\ extract_pc = "saved"
    /\ Cardinality(DOMAIN saved) = 2
    /\ \E f, g \in DOMAIN saved :
           /\ f # g
           /\ DateOfFname(f).day = DateOfFname(g).day
           /\ DateOfFname(f).day = FirstDay

----------------------------------------------------------------------------
(* Ties, frame of the metadata, the skipped summary *)

\* C24: in the sorted series snapshots with different timestamps are in descending order and
\* snapshots with the same timestamp are in the order of the input file list, so of the
\* files that share the greatest timestamp the one given first is the current one
C24_EqualTimestampsKeepInputOrder ==
    AfterSort =>
        /\ \A i, j \in DOMAIN test_results_list :
               i < j =>
                   \/ DateLT(test_results_list[j].date, test_results_list[i].date)
                   \/ /\ test_results_list[j].date = test_results_list[i].date
                      /\ test_results_list[i].fname.id < test_results_list[j].fname.id
        /\ \A k \in DOMAIN test_results_fname_list :
               (\A i \in DOMAIN test_results_fname_list :
                    ~DateLT(test_results_fname_list[k].fname.stamp,
                            test_results_fname_list[i].fname.stamp))
               => test_results_list[1].fname.id <= k

\* the files given second and third share the greatest timestamp; the second is current
C24_Witness ==
    /\ pc = "names"
    /\ Len(test_results_fname_list) = 3
    /\ test_results_fname_list[2].fname.stamp = test_results_fname_list[3].fname.stamp
    /\ DateLT(test_results_fname_list[1].fname.stamp, test_results_fname_list[2].fname.stamp)
    /\ test_results_list[1].fname.id = 2
    /\ test_results_list[2].fname.id = 3

\* C25: add_inferred_meta_data leaves the parsed content of a snapshot as json.load gave it:
\* the same packages, the same test names, and for every test the same fields with the same
\* values
C25_MetadataLeavesContentAsParsed ==
    \A f \in DOMAIN test_results_list :
        LET parsed == test_results_fname_list[test_results_list[f].fname.id].payload.data
            content == test_results_list[f].content
        IN  /\ DOMAIN content = DOMAIN parsed
            /\ \A wheel \in DOMAIN parsed :
                   /\ DOMAIN content[wheel] = DOMAIN parsed[wheel]
                   /\ \A t \in DOMAIN parsed[wheel] :
                          /\ DOMAIN content[wheel][t] = DOMAIN parsed[wheel][t]
                          /\ \A field \in DOMAIN parsed[wheel][t] :
                                 content[wheel][t][field] = parsed[wheel][t][field]

\* the state that the steps after the summary read or write
RestOfReport ==
    <<test_results_fname_list, ignore_tests, top_packages, test_results_list, wheel_name_set,
      all_test_names, wheel_ranks, leading_zeros, wheels>>

\* C26: without a weekday the summary is skipped: in every step of such a run there are no
\* summary rows, no reference date and no reference snapshot, and the run goes on to the
\* package records; and with or without a weekday the summary step leaves alone all that
\* the test-name list and the package records are computed from
C26_NoWeekdaySkipsSummary ==
    [][/\ compare_weekday_num = NoWeekday =>
              /\ summary_rows' = <<>>
              /\ reference_date' = NoDate
              /\ reference_test_file' = NoRef
              /\ pc = "summary" => pc' = "wheels"
       /\ pc = "summary" => UNCHANGED RestOfReport]_vars

\* a report written without a weekday from two snapshots, the older of which would be the
\* reference for Monday
C26_Witness ==
    /\ pc = "written"
    /\ compare_weekday_num = NoWeekday
    /\ Len(test_results_list) = 2
    /\ FindReference(test_results_list, ReferenceDate(test_results_list[1].date, 0)) = 2
    /\ summary_rows = <<>>
    /\ Len(wheels) = 1

----------------------------------------------------------------------------
(* The reference date and snapshot, the metrics of a column *)

\* C27: for an anchor weekday a in 0..6 the reference date falls on weekday a, its calendar
\* day is 1 to 7 days before the calendar day of the current snapshot, and it is strictly
\* earlier than the current snapshot's timestamp
C27_ReferenceDateWithinPastWeek ==
    (AfterSummary /\ compare_weekday_num # NoWeekday /\ compare_weekday_num[1] \in 0..6) =>
        LET current == test_results_list[1].date
        IN  /\ weekday(reference_date) = compare_weekday_num[1]
            /\ current.day - reference_date.day \in 1..7
            /\ DateLT(reference_date, current)

\* a current snapshot of a Monday compared on Sundays: the reference date is the day before
C27_Witness ==
    /\ pc = "done"
    /\ compare_weekday_num = <<6>>
    /\ weekday(test_results_list[1].date) = 0
    /\ reference_date.day = test_results_list[1].date.day - 1

\* C28: a selected reference snapshot is never the current snapshot series[0], and its
\* timestamp is strictly earlier than the current snapshot's, so the two columns of the
\* summary describe different snapshots
C28_ReferenceIsNotCurrent ==
    (AfterSummary /\ compare_weekday_num # NoWeekday /\ reference_test_file # NoRef) =>
        /\ reference_test_file # 1
        /\ DateLT(test_results_list[reference_test_file].date, test_results_list[1].date)
        /\ \A r \in DOMAIN summary_rows : Len(summary_rows[r].values) = 2
        /\ summary_rows[1].values[1] # summary_rows[1].values[2]

\* the third snapshot is the reference: the second is not before the reference date
C28_Witness ==
    /\ pc = "done"
    /\ Len(test_results_list) = 3
    /\ reference_test_file = 3
    /\ ~DateLT(test_results_list[2].date, reference_date)

\* C29: in every column of the summary, 0 <= 'some tests failed' <= 'number of wheels',
\* 'all tests passed' + 'some tests failed' = 'number of wheels', and
\* 'all tests passed' <= 'each dist has passing option' <= 'number of wheels'
C29_ColumnMetricsAreConsistent ==
    (AfterSummary /\ summary_rows # <<>>) =>
        \A c \in DOMAIN summary_rows[1].values :
            LET number_of_wheels == summary_rows[2].values[c]
                all_passed == summary_rows[3].values[c]
                some_failed == summary_rows[4].values[c]
                passing_option == summary_rows[5].values[c]
            IN  /\ 0 <= some_failed
                /\ some_failed <= number_of_wheels
                /\ all_passed + some_failed = number_of_wheels
                /\ all_passed <= passing_option
                /\ passing_option <= number_of_wheels

\* a reference column of two packages, both with a failed test, one of them with a passing
\* option on every distribution
C29_Witness ==
    /\ pc = "done"
    /\ Len(summary_rows[1].values) = 2
    /\ summary_rows[2].values[1] = 2
    /\ summary_rows[3].values[1] = 0
    /\ summary_rows[4].values[1] = 2
    /\ summary_rows[5].values[1] = 1

----------------------------------------------------------------------------
(* fetch_previous_results: the selection *)

\* the k-th smallest of the requested numbers of days, repeated values counted
KthSmallestRequested(k) ==
    CHOOSE v \in {days_ago_arg[i] : i \in DOMAIN days_ago_arg} :
        /\ Cardinality({i \in DOMAIN days_ago_arg : days_ago_arg[i] < v}) < k
        /\ k <= Cardinality({i \in DOMAIN days_ago_arg : days_ago_arg[i] <= v})

\* C30: at every point of the selection loop the selected artifacts are pairwise distinct
\* and in non-increasing created_at order, the selected artifacts and the days-ago values
\* left are together as many as the requested values, and the k-th selected artifact was
\* created more than the k-th smallest requested number of days before now
C30_SelectionLoopInvariant ==
    select_pc \in {"loop", "selected"} =>
        /\ \A i, j \in DOMAIN selected :
               i < j => /\ selected[i].id # selected[j].id
                        /\ selected[i].created_at >= selected[j].created_at
        /\ Len(selected) + Len(days_ago_list) = Len(days_ago_arg)
        /\ \A k \in DOMAIN selected :
               Now - selected[k].created_at > KthSmallestRequested(k)

\* asked for 2 and 0 days ago: the newest artifact is taken for 0, the next is too recent
\* for 2 and passed over, the third is taken
C30_Witness ==
    /\ select_pc = "selected"
    /\ days_ago_arg = <<2, 0>>
    /\ Len(artifacts) = 3
    /\ Len(selected) = 2
    /\ selected[1] = artifacts[1]
    /\ selected[2] = artifacts[3]
    /\ Now - artifacts[2].created_at = 2

====
